---- MODULE Spec2Model ----
(***************************************************************************)
(* Model of the calculator in src/app.js: the expression evaluator         *)
(* (tokenize -> toRpn -> evalRpn, composed by evaluate) and the UI state    *)
(* around it (expression, lastResult, result display, status, history in   *)
(* localStorage).                                                          *)
(*                                                                         *)
(* Strings are sequences of characters (see Characters below).             *)
(*                                                                         *)
(* A JavaScript number is an IEEE 754 double.  A finite double other than   *)
(* zero is a triple <<s, m, e>> that stands for s * m * 2^e, with the sign *)
(* s, an odd mantissa m of at most 53 binary digits and an exponent e; the *)
(* mantissa is a natural number of any size, held as the sequence of its   *)
(* digits in base 2^15.  Literals, sums, differences, products and         *)
(* quotients are rounded to the nearest double, ties to the even mantissa, *)
(* with the subnormal doubles down to 2^-1074, underflow to zero and       *)
(* overflow to an infinity; String(v) gives the fewest digits that read    *)
(* back as v.  The value -0 is identified with 0: the program cannot tell  *)
(* them apart (b === 0 holds for both, String gives "0" for both).         *)
(***************************************************************************)
EXTENDS Integers, Sequences, FiniteSets, TLC

(***************************************************************************)
(* Bounds of the model.                                                    *)
(***************************************************************************)
\* longest input string of the evaluation pipeline, over ExprChars
MaxExprChars == 5
\* longest input string of the evaluation pipeline, over ScanChars
MaxScanChars == 5
\* longest input of the evaluation pipeline in words of LongWords
MaxLongWords == 3
\* length of the expression from which the UI model types no further key
MaxTyped == 3
\* number of history entries the UI model adds in one behaviour
MaxAdds == 1
\* successful equals in the model of the history
MaxSaves == 22

(***************************************************************************)
(* Program constants.                                                      *)
(***************************************************************************)
MAX_EXPR_LEN == 240
HISTORY_LIMIT == 20

(***************************************************************************)
(* Natural numbers of any size.  TLC's integers have 32 bits, the mantissa *)
(* of a double has 53 and the exact sums, products and quotients of        *)
(* doubles have more; such a number is the sequence of its digits in base  *)
(* 2^15, the least significant first and the most significant not zero;    *)
(* zero is the empty sequence.                                             *)
(***************************************************************************)
Base == 32768

Pow2(k) ==
  <<1, 2, 4, 8, 16, 32, 64, 128, 256, 512, 1024, 2048, 4096, 8192, 16384, 32768>>[k + 1]

Abs(n) == IF n < 0 THEN -n ELSE n

Limb(x, i) == IF 1 <= i /\ i <= Len(x) THEN x[i] ELSE 0

\* x without its most significant zeros
BigNorm(x) ==
  LET z == CHOOSE d \in 0..Len(x) :
             /\ d = Len(x) \/ x[Len(x) - d] # 0
             /\ \A k \in (Len(x) - d + 1)..Len(x) : x[k] = 0
  IN SubSeq(x, 1, Len(x) - z)

\* the number n >= 0 of TLC
RECURSIVE BigOfInt(_)
BigOfInt(n) == IF n = 0 THEN <<>> ELSE <<n % Base>> \o BigOfInt(n \div Base)

\* -1, 0 or 1 as x < y, x = y or x > y
BigCmp(x, y) ==
  IF Len(x) < Len(y) THEN -1
  ELSE IF Len(x) > Len(y) THEN 1
  ELSE IF \A i \in 1..Len(x) : x[i] = y[i] THEN 0
  ELSE LET d == CHOOSE c \in 0..(Len(x) - 1) :
                  /\ x[Len(x) - c] # y[Len(x) - c]
                  /\ \A k \in (Len(x) - c + 1)..Len(x) : x[k] = y[k]
       IN IF x[Len(x) - d] < y[Len(x) - d] THEN -1 ELSE 1

\* the carry into digit i of x + y
CarryInto(x, y, i) ==
  IF i = 1 THEN 0
  ELSE IF Limb(x, i - 1) + Limb(y, i - 1) # Base - 1
    THEN (IF Limb(x, i - 1) + Limb(y, i - 1) >= Base THEN 1 ELSE 0)
  ELSE IF \E j \in 1..(i - 2) :
            /\ Limb(x, j) + Limb(y, j) >= Base
            /\ \A k \in (j + 1)..(i - 2) : Limb(x, k) + Limb(y, k) = Base - 1
    THEN 1
  ELSE 0

BigAdd(x, y) ==
  LET n == (IF Len(x) > Len(y) THEN Len(x) ELSE Len(y)) + 1
  IN BigNorm(SubSeq([i \in 1..n |->
                      (Limb(x, i) + Limb(y, i) + CarryInto(x, y, i)) % Base], 1, n))

\* the borrow from digit i of x - y
BorrowFrom(x, y, i) ==
  IF i = 1 THEN 0
  ELSE IF Limb(x, i - 1) # Limb(y, i - 1)
    THEN (IF Limb(x, i - 1) < Limb(y, i - 1) THEN 1 ELSE 0)
  ELSE IF \E j \in 1..(i - 2) :
            /\ Limb(x, j) < Limb(y, j)
            /\ \A k \in (j + 1)..(i - 2) : Limb(x, k) = Limb(y, k)
    THEN 1
  ELSE 0

\* x - y, for x >= y
BigSub(x, y) ==
  BigNorm(SubSeq([i \in 1..Len(x) |->
                    (x[i] - Limb(y, i) - BorrowFrom(x, y, i) + Base) % Base],
                 1, Len(x)))

\* x * k, for 0 <= k < Base
BigMulSmall(x, k) ==
  BigAdd(SubSeq([i \in 1..Len(x) |-> (x[i] * k) % Base], 1, Len(x)),
         SubSeq([i \in 1..(Len(x) + 1) |->
                   IF i = 1 THEN 0 ELSE (x[i - 1] * k) \div Base], 1, Len(x) + 1))

\* x * Base^n
BigShiftLimbs(x, n) == IF Len(x) = 0 THEN <<>> ELSE [i \in 1..n |-> 0] \o x

\* x times the digits lo..hi of y, each at its place
RECURSIVE BigMulRange(_, _, _, _)
BigMulRange(x, y, lo, hi) ==
  IF lo = hi THEN BigShiftLimbs(BigMulSmall(x, y[lo]), lo - 1)
  ELSE BigAdd(BigMulRange(x, y, lo, (lo + hi) \div 2),
              BigMulRange(x, y, (lo + hi) \div 2 + 1, hi))

\* x * y
BigMul(x, y) ==
  IF Len(x) = 0 \/ Len(y) = 0 THEN <<>>
  ELSE BigMulRange(IF Len(x) >= Len(y) THEN x ELSE y,
                   IF Len(x) >= Len(y) THEN y ELSE x,
                   1, IF Len(x) >= Len(y) THEN Len(y) ELSE Len(x))

\* x * 2^n
BigShl(x, n) ==
  LET d == n \div 15
      r == n % 15
  IN BigNorm(SubSeq([i \in 1..(Len(x) + d + 1) |->
                       IF i <= d THEN 0
                       ELSE (Limb(x, i - d) % Pow2(15 - r)) * Pow2(r)
                              + Limb(x, i - d - 1) \div Pow2(15 - r)],
                    1, Len(x) + d + 1))

\* x \div 2^n
BigShr(x, n) ==
  LET d == n \div 15
      r == n % 15
  IN IF d >= Len(x) THEN <<>>
     ELSE BigNorm(SubSeq([i \in 1..(Len(x) - d) |->
                            Limb(x, i + d) \div Pow2(r)
                              + (Limb(x, i + d + 1) % Pow2(r)) * Pow2(15 - r)],
                         1, Len(x) - d))

\* the number of binary digits of n < Base
SmallBitLen(n) == CHOOSE b \in 0..15 : (b = 0 \/ n >= Pow2(b - 1)) /\ n < Pow2(b)

\* the number of binary digits of x
BigBitLen(x) == IF Len(x) = 0 THEN 0 ELSE 15 * (Len(x) - 1) + SmallBitLen(x[Len(x)])

\* the binary digit of x of weight 2^i
BigBit(x, i) == (Limb(x, i \div 15 + 1) \div Pow2(i % 15)) % 2

\* the n lowest binary digits of x are zeros
BigLowBitsZero(x, n) ==
  /\ \A i \in 1..(n \div 15) : Limb(x, i) = 0
  /\ Limb(x, n \div 15 + 1) % Pow2(n % 15) = 0

\* the number of zeros at the low end of the binary digits of x # 0
BigTrailingZeros(x) ==
  LET j == CHOOSE i \in 1..Len(x) : x[i] # 0 /\ \A k \in 1..(i - 1) : x[k] = 0
      b == CHOOSE c \in 0..14 : x[j] % Pow2(c + 1) # 0 /\ x[j] % Pow2(c) = 0
  IN 15 * (j - 1) + b

\* the greatest t with lo <= t < hi and t * y <= r, given lo * y <= r < hi * y
RECURSIVE QuotLimb(_, _, _, _)
QuotLimb(r, y, lo, hi) ==
  IF hi - lo <= 1 THEN lo
  ELSE IF BigCmp(BigMulSmall(y, (lo + hi) \div 2), r) <= 0
         THEN QuotLimb(r, y, (lo + hi) \div 2, hi)
         ELSE QuotLimb(r, y, lo, (lo + hi) \div 2)

\* the digit t of the quotient of r by y, for r < Base * y: the leading
\* digits of r and y bound it, r2 \div (y[n] + 1) <= t <= (r2 + 1) \div y[n]
\* where r2 is r without its n - 1 low digits and n == Len(y)
QuotDigit(r, y) ==
  LET n == Len(y)
      r2 == Limb(r, n + 1) * Base + Limb(r, n)
      hi == (r2 + 1) \div y[n] + 1
  IN IF n = 1 THEN r2 \div y[1]
     ELSE QuotLimb(r, y, r2 \div (y[n] + 1), IF hi > Base THEN Base ELSE hi)

\* long division of x by y: the digits of x from i down are brought down to
\* the remainder r one by one, q holds the digits of the quotient so far
RECURSIVE BigDivModFrom(_, _, _, _, _)
\* the step for the remainder r1 with its digit brought down and the digit t
\* of the quotient
BigDivModStep(x, y, i, r1, q, t) ==
  BigDivModFrom(x, y, i - 1, BigSub(r1, BigMulSmall(y, t)), <<t>> \o q)

BigDivModFrom(x, y, i, r, q) ==
  IF i = 0 THEN [q |-> BigNorm(q), r |-> r]
  ELSE BigDivModStep(x, y, i, BigNorm(<<x[i]>> \o r), q,
                     QuotDigit(BigNorm(<<x[i]>> \o r), y))

\* quotient q and remainder r of x by y # 0: the Len(y) - 1 most significant
\* digits of x are less than y and start the remainder
BigDivMod(x, y) ==
  IF BigCmp(x, y) < 0 THEN [q |-> <<>>, r |-> x]
  ELSE BigDivModFrom(x, y, Len(x) - Len(y) + 1,
                     SubSeq(x, Len(x) - Len(y) + 2, Len(x)), <<>>)

\* the whole part d.q of a quotient and whether a fraction r is left: some is
\* when the division d left a remainder or binary digits were lost before it
QuotFrac(d, lost) == [q |-> d.q, r |-> lost \/ Len(d.r) > 0]

\* x * 2^sh / y for y # 0: the whole part q of the quotient and whether a
\* fraction r is left; a division by a power of two drops binary digits
ShiftedDiv(x, sh, y) ==
  QuotFrac(BigDivMod(IF sh >= 0 THEN BigShl(x, sh) ELSE BigShr(x, -sh), y),
           sh < 0 /\ ~BigLowBitsZero(x, -sh))

BigSquare(x) == BigMul(x, x)

\* 5^k, by squaring
RECURSIVE BigPow5(_)
BigPow5(k) ==
  IF k <= 6 THEN <<(<<1, 5, 25, 125, 625, 3125, 15625>>)[k + 1]>>
  ELSE BigMulSmall(BigSquare(BigPow5(k \div 2)), IF k % 2 = 0 THEN 1 ELSE 5)

(***************************************************************************)
(* JavaScript numbers: IEEE 754 doubles.  A finite double other than zero  *)
(* is <<s, m, e>> and stands for s * m * 2^e: s is 1 or -1, m is an odd    *)
(* natural number of at most 53 binary digits, and -1074 <= e with         *)
(* m * 2^e < 2^1024.  Zero == <<0, <<>>, 0>>; the value -0 is identified   *)
(* with 0: the program cannot tell them apart (b === 0 holds for both,     *)
(* String gives "0" for both).  The values that are not finite are         *)
(* Infinity, NegInfinity and NaN.  Every operation is rounded to the       *)
(* nearest double, ties to the even mantissa.                              *)
(***************************************************************************)
Zero == <<0, <<>>, 0>>
Infinity == <<1, <<>>, 1>>
NegInfinity == <<-1, <<>>, 1>>
NaN == <<0, <<>>, 1>>

\* Number.isFinite
IsFinite(v) == v[3] # 1 \/ Len(v[2]) > 0

\* s * m * 2^e for m # 0 that a double holds as it is: the mantissa is made odd
Canonical(s, m, e) ==
  <<s, BigShr(m, BigTrailingZeros(m)), e + BigTrailingZeros(m)>>

\* the number of low binary digits of n * 2^e that a double does not hold:
\* those after the 53 most significant ones and those below 2^-1074
Dropped(n, e) ==
  LET a == BigBitLen(n) - 53
      b == -1074 - e
  IN IF a > b THEN (IF a > 0 THEN a ELSE 0) ELSE (IF b > 0 THEN b ELSE 0)

\* (n + f) / 2^sh rounded to the nearest natural number, a tie to the even one
RoundShift(n, sh, sticky) ==
  IF sh = 0 THEN n
  ELSE LET q == BigShr(n, sh)
       IN IF /\ BigBit(n, sh - 1) = 1
             /\ sticky \/ ~BigLowBitsZero(n, sh - 1) \/ Limb(q, 1) % 2 = 1
            THEN BigAdd(q, <<1>>) ELSE q

\* the double s * m * 2^e for a rounded mantissa m: zero, an infinity when it
\* is 2^1024 or more
Rounded(s, m, e) ==
  IF Len(m) = 0 THEN Zero
  ELSE IF BigBitLen(m) + e > 1024 THEN (IF s < 0 THEN NegInfinity ELSE Infinity)
  ELSE Canonical(s, m, e)

\* the double nearest to s * (n + f) * 2^e, where n is a natural number and
\* 0 <= f < 1, f # 0 exactly when sticky; sticky requires n to have more
\* than 54 binary digits
RoundToDouble(s, n, e, sticky) ==
  Rounded(s, RoundShift(n, Dropped(n, e), sticky), e + Dropped(n, e))

\* the double nearest to s * (d.q + f) * 2^e for the quotient d.q and the
\* fraction f that is left of it when d.r
RoundQuotient(s, d, e) == RoundToDouble(s, d.q, e, d.r)

\* the double nearest to s * (x / y) * 2^e for natural numbers x and y # 0:
\* the quotient is taken to 56 or 57 binary digits
DivideToDouble(s, x, y, e) ==
  LET k == BigBitLen(x) - BigBitLen(y) - 56
  IN RoundQuotient(s, ShiftedDiv(x, -k, y), e + k)

\* unary minus
Neg(a) == IF Len(a[2]) = 0 /\ a[1] = 0 THEN a ELSE <<-a[1], a[2], a[3]>>

\* the double nearest to sa * x * 2^e + sb * y * 2^e
AddAligned(sa, x, sb, y, e) ==
  RoundToDouble(IF sa = sb \/ BigCmp(x, y) > 0 THEN sa ELSE sb,
                IF sa = sb THEN BigAdd(x, y)
                ELSE IF BigCmp(x, y) > 0 THEN BigSub(x, y) ELSE BigSub(y, x),
                e, FALSE)

\* a + b
NumAdd(a, b) ==
  IF a = NaN \/ b = NaN THEN NaN
  ELSE IF ~IsFinite(a) THEN (IF ~IsFinite(b) /\ a # b THEN NaN ELSE a)
  ELSE IF ~IsFinite(b) THEN b
  ELSE IF a = Zero THEN b
  ELSE IF b = Zero THEN a
  ELSE LET e == IF a[3] < b[3] THEN a[3] ELSE b[3]
       IN AddAligned(a[1], BigShl(a[2], a[3] - e), b[1], BigShl(b[2], b[3] - e), e)

\* a - b
NumSub(a, b) == NumAdd(a, Neg(b))

\* a * b
NumMul(a, b) ==
  IF a = NaN \/ b = NaN THEN NaN
  ELSE IF ~IsFinite(a) \/ ~IsFinite(b)
    THEN (IF a = Zero \/ b = Zero THEN NaN
          ELSE IF a[1] * b[1] < 0 THEN NegInfinity ELSE Infinity)
  ELSE IF a = Zero \/ b = Zero THEN Zero
  ELSE RoundToDouble(a[1] * b[1], BigMul(a[2], b[2]), a[3] + b[3], FALSE)

\* a / b; x/0 is an infinity and 0/0 is NaN
NumDiv(a, b) ==
  IF a = NaN \/ b = NaN THEN NaN
  ELSE IF ~IsFinite(a)
    THEN (IF ~IsFinite(b) THEN NaN
          ELSE IF (a[1] < 0) # (b[1] < 0) THEN NegInfinity ELSE Infinity)
  ELSE IF ~IsFinite(b) THEN Zero
  ELSE IF b = Zero
    THEN (IF a = Zero THEN NaN ELSE IF a[1] < 0 THEN NegInfinity ELSE Infinity)
  ELSE IF a = Zero THEN Zero
  ELSE DivideToDouble(a[1] * b[1], a[2], b[2], a[3] - b[3])

\* the double nearest to n * 10^p, for a natural number n: 10^p is 5^p * 2^p
DecimalToDouble(n, p) ==
  IF Len(n) = 0 THEN Zero
  ELSE DivideToDouble(1, BigMul(n, BigPow5(IF p > 0 THEN p ELSE 0)),
                      BigPow5(IF p < 0 THEN -p ELSE 0), p)

\* 10^k
BigPow10(k) == BigShl(BigPow5(k), k)

(***************************************************************************)
(* Characters.  A character is a UTF-16 code unit.  A code unit up to       *)
(* U+00FF is the string of that one character; a code unit above U+00FF is *)
(* the string of its name, as "U+1680", and counts as one character of a   *)
(* string like any other.                                                  *)
(***************************************************************************)
Digits == {"0", "1", "2", "3", "4", "5", "6", "7", "8", "9"}

DigitVal(ch) ==
  CASE ch = "0" -> 0 [] ch = "1" -> 1 [] ch = "2" -> 2 [] ch = "3" -> 3
    [] ch = "4" -> 4 [] ch = "5" -> 5 [] ch = "6" -> 6 [] ch = "7" -> 7
    [] ch = "8" -> 8 [] ch = "9" -> 9

\* /\d/.test(ch)
IsDigit(ch) == ch \in Digits

\* the code units above U+00FF that \s and trim() take for whitespace
WideSpaces ==
  {"U+1680", "U+2000", "U+2001", "U+2002", "U+2003", "U+2004", "U+2005", "U+2006",
   "U+2007", "U+2008", "U+2009", "U+200A", "U+2028", "U+2029", "U+202F", "U+205F",
   "U+3000", "U+FEFF"}

\* /\s/.test(ch): tab, line feed, vertical tab, form feed, carriage return,
\* space, no-break space (U+00A0) and the code units of WideSpaces
IsSpace(ch) == ch \in {" ", "\t", "\n", "\f", "\r", "", " "} \cup WideSpaces

\* the line terminators, which the "." of a regular expression does not match
IsLineTerminator(ch) == ch \in {"\n", "\r", "U+2028", "U+2029"}

isOperator(ch) == ch = "+" \/ ch = "-" \/ ch = "*" \/ ch = "/"

(***************************************************************************)
(* Outcomes of a call: a returned value or a thrown Error with a message.  *)
(***************************************************************************)
Return(v) == [ok |-> TRUE, value |-> v]
Throw(msg) == [ok |-> FALSE, error |-> msg]

(***************************************************************************)
(* tokenize                                                                *)
(***************************************************************************)
\* mutant of StripSpaces: only the first run of whitespace is removed
StripSpaces_FirstRun(input) ==
  LET sp == {k \in 1..Len(input) : IsSpace(input[k])} IN
  IF sp = {} THEN input
  ELSE LET a == CHOOSE k \in sp : \A m \in sp : k <= m
           b == CHOOSE k \in a..Len(input) :
                  /\ \A m \in a..k : IsSpace(input[m])
                  /\ k = Len(input) \/ ~IsSpace(input[k + 1])
       IN SubSeq(input, 1, a - 1) \o SubSeq(input, b + 1, Len(input))

\* input.replace(/\s+/g, "")
StripSpaces(input) == SelectSeq(input, LAMBDA ch : ~IsSpace(ch))

\* the end j of the run of digits and '.' that holds position i: the inner
\* while stops at the first j after i that is past the end or no run character
RunEnd(s, i) ==
  LET stops == {j \in (i + 1)..(Len(s) + 1) :
                  j > Len(s) \/ ~(IsDigit(s[j]) \/ s[j] = ".")}
  IN CHOOSE j \in stops : \A k \in stops : j <= k

AllDigits(raw) == \A k \in 1..Len(raw) : IsDigit(raw[k])

\* mutant of MatchesNumber: /^\d*\.?\d*$/, no digit is needed after the '.'
MatchesNumber_NoDigitNeeded(raw) ==
  \E p \in 0..Len(raw) :
    /\ AllDigits(SubSeq(raw, 1, p))
    /\ \/ AllDigits(SubSeq(raw, p + 1, Len(raw)))
       \/ /\ p + 1 <= Len(raw)
          /\ raw[p + 1] = "."
          /\ AllDigits(SubSeq(raw, p + 2, Len(raw)))

\* /^\d*\.?\d+$/.test(raw): some prefix of digits, then at most one '.',
\* then one or more digits up to the end
MatchesNumber(raw) ==
  \E p \in 0..Len(raw) :
    /\ AllDigits(SubSeq(raw, 1, p))
    /\ \/ /\ p < Len(raw)
          /\ AllDigits(SubSeq(raw, p + 1, Len(raw)))
       \/ /\ p + 1 < Len(raw)
          /\ raw[p + 1] = "."
          /\ AllDigits(SubSeq(raw, p + 2, Len(raw)))

\* the digits ds[k..g] read as an integer, for at most four digits
RECURSIVE DigitsValue(_, _, _, _)
DigitsValue(ds, k, g, acc) ==
  IF k > g THEN acc ELSE DigitsValue(ds, k + 1, g, acc * 10 + DigitVal(ds[k]))

\* the digits ds[lo..hi] read as a natural number: the value of the first
\* half times the weight of the second half, plus the value of the second
RECURSIVE DigitsToBig(_, _, _)
DigitsToBig(ds, lo, hi) ==
  IF hi - lo < 4 THEN BigOfInt(DigitsValue(ds, lo, hi, 0))
  ELSE LET mid == (lo + hi) \div 2
       IN BigAdd(BigMul(DigitsToBig(ds, lo, mid), BigPow10(hi - mid)),
                 DigitsToBig(ds, mid + 1, hi))

\* Number(raw) for a raw that matches the number pattern: the double nearest
\* to the decimal that raw writes.  The digits from the first to the last
\* that is not 0 are read as a whole number; the zeros after them and the
\* digits after the '.' give the power of ten.
Number(raw) ==
  LET ds == SelectSeq(raw, IsDigit)
      point == {k \in 1..Len(raw) : raw[k] = "."}
      decimals == IF point = {} THEN 0 ELSE Len(raw) - (CHOOSE k \in point : TRUE)
      nonZero == SelectSeq([k \in 1..Len(ds) |-> k], LAMBDA k : ds[k] # "0")
  IN IF Len(nonZero) = 0 THEN Zero
     ELSE DecimalToDouble(DigitsToBig(ds, nonZero[1], nonZero[Len(nonZero)]),
                          Len(ds) - nonZero[Len(nonZero)] - decimals)

\* mutant of tokenizeFrom: after an offending run or character the scan goes
\* on, and the error of the last offender is reported
RECURSIVE tokenizeFrom_ReportsLast(_, _, _)
tokenizeFrom_ReportsLast(s, i, tokens) ==
  IF i > Len(s) THEN [ok |-> TRUE, tokens |-> tokens]
  ELSE LET ch == s[i] IN
    IF IsDigit(ch) \/ ch = "." THEN
      LET j == RunEnd(s, i)
          raw == SubSeq(s, i, j - 1)
          rest == tokenizeFrom_ReportsLast(s, j, tokens)
          value == Number(raw)
      IN IF ~MatchesNumber(raw) THEN (IF rest.ok THEN Throw("Invalid number") ELSE rest)
         ELSE IF ~IsFinite(value)
           THEN (IF rest.ok THEN Throw("Number too large") ELSE rest)
         ELSE tokenizeFrom_ReportsLast(s, j,
                Append(tokens, [type |-> "num", value |-> value]))
    ELSE IF ch = "(" \/ ch = ")" THEN
      tokenizeFrom_ReportsLast(s, i + 1, Append(tokens, [type |-> ch]))
    ELSE IF isOperator(ch) THEN
      tokenizeFrom_ReportsLast(s, i + 1, Append(tokens, [type |-> "op", value |-> ch]))
    ELSE LET rest == tokenizeFrom_ReportsLast(s, i + 1, tokens)
         IN IF rest.ok THEN Throw("Unexpected character: " \o ch) ELSE rest

\* the loop of tokenize from position i of the stripped string s
RECURSIVE tokenizeFrom(_, _, _)
\* the branch of the loop for the run raw of digits and '.' that ends before
\* j, with n == Number(raw)
tokenizeRun(s, j, tokens, raw, n) ==
  IF ~MatchesNumber(raw) THEN Throw("Invalid number")
  ELSE IF ~IsFinite(n) THEN Throw("Number too large")
  ELSE tokenizeFrom(s, j, Append(tokens, [type |-> "num", value |-> n]))

tokenizeFrom(s, i, tokens) ==
  IF i > Len(s) THEN [ok |-> TRUE, tokens |-> tokens]
  ELSE LET ch == s[i] IN
    IF IsDigit(ch) \/ ch = "." THEN
      tokenizeRun(s, RunEnd(s, i), tokens, SubSeq(s, i, RunEnd(s, i) - 1),
                  Number(SubSeq(s, i, RunEnd(s, i) - 1)))
    ELSE IF ch = "(" \/ ch = ")" THEN
      tokenizeFrom(s, i + 1, Append(tokens, [type |-> ch]))
    ELSE IF isOperator(ch) THEN
      tokenizeFrom(s, i + 1, Append(tokens, [type |-> "op", value |-> ch]))
    ELSE Throw("Unexpected character: " \o ch)

tokenize(input) == tokenizeFrom(StripSpaces(input), 1, <<>>)

(***************************************************************************)
(* toRpn                                                                   *)
(***************************************************************************)
prec(v) ==
  CASE v = "u+" -> 3 [] v = "u-" -> 3 [] v = "*" -> 2 [] v = "/" -> 2
    [] v = "+" -> 1 [] v = "-" -> 1

rightAssoc == {"u+", "u-"}

Top(stack) == stack[Len(stack)]
Pop(stack) == SubSeq(stack, 1, Len(stack) - 1)

\* mutant of PopsBefore: equal precedence never pops, so that binary operators
\* group to the right
PopsBefore_RightGrouping(a, b) == prec(a) < prec(b)

\* whether pushOp moves the operator b on top of the stack to the output
\* before it pushes the operator a
PopsBefore(a, b) ==
  \/ a \in rightAssoc /\ prec(a) < prec(b)
  \/ a \notin rightAssoc /\ prec(a) <= prec(b)

\* pushOp(op) on the output o and the operator stack s
RECURSIVE pushOp(_, _, _)
pushOp(op, o, s) ==
  IF Len(s) > 0 /\ Top(s).type = "op" /\ PopsBefore(op.value, Top(s).value)
    THEN pushOp(op, Append(o, Top(s)), Pop(s))
    ELSE [out |-> o, ops |-> Append(s, op)]

\* mutant of PopToParen: the operators above the "(" are dropped instead of
\* moved to the output
RECURSIVE PopToParen_DropsOps(_, _)
PopToParen_DropsOps(o, s) ==
  IF Len(s) > 0 /\ Top(s).type # "(" THEN PopToParen_DropsOps(o, Pop(s))
  ELSE [out |-> o, ops |-> s]

\* the loop of the ")" branch: move the stack to the output down to a "("
RECURSIVE PopToParen(_, _)
PopToParen(o, s) ==
  IF Len(s) > 0 /\ Top(s).type # "(" THEN PopToParen(Append(o, Top(s)), Pop(s))
  ELSE [out |-> o, ops |-> s]

\* mutant of IsUnaryPosition: only the first token is in unary position
IsUnaryPosition_FirstOnly(toks, i) == i = 1

\* unary detection for the operator token at idx
IsUnaryPosition(toks, i) ==
  i = 1 \/ toks[i - 1].type = "op" \/ toks[i - 1].type = "("

\* one iteration of the for loop of toRpn, on the token at i
toRpnStep(toks, i, o, s) ==
  LET t == toks[i] IN
  IF t.type = "num" THEN [ok |-> TRUE, out |-> Append(o, t), ops |-> s]
  ELSE IF t.type = "(" THEN [ok |-> TRUE, out |-> o, ops |-> Append(s, t)]
  ELSE IF t.type = ")" THEN
    LET r == PopToParen(o, s) IN
    IF Len(r.ops) = 0 THEN Throw("Mismatched parentheses")
    ELSE [ok |-> TRUE, out |-> r.out, ops |-> Pop(r.ops)]
  ELSE IF t.type = "op" THEN
    LET unary == IsUnaryPosition(toks, i)
        r == IF unary /\ (t.value = "+" \/ t.value = "-")
               THEN pushOp([type |-> "op", value |-> IF t.value = "+" THEN "u+" ELSE "u-"], o, s)
               ELSE pushOp(t, o, s)
    IN [ok |-> TRUE, out |-> r.out, ops |-> r.ops]
  ELSE Throw("Invalid token")

\* mutant of toRpnDrain: a "(" left on the stack is moved to the output
RECURSIVE toRpnDrain_KeepsParen(_, _)
toRpnDrain_KeepsParen(o, s) ==
  IF Len(s) = 0 THEN [ok |-> TRUE, rpn |-> o]
  ELSE toRpnDrain_KeepsParen(Append(o, Top(s)), Pop(s))

\* the final while of toRpn: empty the operator stack into the output
RECURSIVE toRpnDrain(_, _)
toRpnDrain(o, s) ==
  IF Len(s) = 0 THEN [ok |-> TRUE, rpn |-> o]
  ELSE IF Top(s).type = "(" THEN Throw("Mismatched parentheses")
  ELSE toRpnDrain(Append(o, Top(s)), Pop(s))

\* out and ops as the iteration on the token at i leaves them, r being what
\* the iteration gives: when ")" finds no "(", the while loop has moved every
\* operator of the stack to the output before the throw
toRpnStepLocals(toks, i, o, s, r) ==
  IF r.ok THEN [out |-> r.out, ops |-> r.ops]
  ELSE IF toks[i].type = ")" THEN PopToParen(o, s)
  ELSE [out |-> o, ops |-> s]

\* out and ops as the final while of toRpn leaves them: the operators above
\* a "(" have been moved to the output and the "(" has been popped when the
\* loop throws
RECURSIVE toRpnDrainLocals(_, _)
toRpnDrainLocals(o, s) ==
  IF Len(s) = 0 THEN [out |-> o, ops |-> s]
  ELSE IF Top(s).type = "(" THEN [out |-> o, ops |-> Pop(s)]
  ELSE toRpnDrainLocals(Append(o, Top(s)), Pop(s))

RECURSIVE toRpnFrom(_, _, _, _)
toRpnFrom(toks, i, o, s) ==
  IF i > Len(toks) THEN toRpnDrain(o, s)
  ELSE LET r == toRpnStep(toks, i, o, s) IN
       IF ~r.ok THEN r ELSE toRpnFrom(toks, i + 1, r.out, r.ops)

toRpn(toks) == toRpnFrom(toks, 1, <<>>, <<>>)

(***************************************************************************)
(* evalRpn                                                                 *)
(***************************************************************************)
\* the end of a binary operation with the result v: the test
\* Number.isFinite(v) and st.push(v)
pushFinite(rest, v) ==
  IF ~IsFinite(v) THEN Throw("Result not finite")
  ELSE [ok |-> TRUE, st |-> Append(rest, v)]

\* mutant of evalRpnStep: the division is made without the test b === 0
evalRpnStep_NoZeroTest(t, s) ==
  IF t.type = "num" THEN [ok |-> TRUE, st |-> Append(s, t.value)]
  ELSE IF t.type = "op" THEN
    IF t.value = "u+" \/ t.value = "u-" THEN
      IF Len(s) < 1 THEN Throw("Invalid expression")
      ELSE LET a == Top(s) IN
           [ok |-> TRUE, st |-> Append(Pop(s), IF t.value = "u-" THEN Neg(a) ELSE a)]
    ELSE IF Len(s) < 2 THEN Throw("Invalid expression")
    ELSE LET b == Top(s)
             a == Top(Pop(s))
             rest == Pop(Pop(s))
         IN IF t.value \notin {"+", "-", "*", "/"} THEN Throw("Unknown operator")
            ELSE pushFinite(rest, CASE t.value = "+" -> NumAdd(a, b)
                                    [] t.value = "-" -> NumSub(a, b)
                                    [] t.value = "*" -> NumMul(a, b)
                                    [] t.value = "/" -> NumDiv(a, b))
  ELSE Throw("Invalid token")

\* mutant of evalRpnStep: the result of a binary operation is pushed without
\* the test Number.isFinite(v)
evalRpnStep_NoFiniteTest(t, s) ==
  IF t.type = "num" THEN [ok |-> TRUE, st |-> Append(s, t.value)]
  ELSE IF t.type = "op" THEN
    IF t.value = "u+" \/ t.value = "u-" THEN
      IF Len(s) < 1 THEN Throw("Invalid expression")
      ELSE LET a == Top(s) IN
           [ok |-> TRUE, st |-> Append(Pop(s), IF t.value = "u-" THEN Neg(a) ELSE a)]
    ELSE IF Len(s) < 2 THEN Throw("Invalid expression")
    ELSE LET b == Top(s)
             a == Top(Pop(s))
             rest == Pop(Pop(s))
         IN IF t.value \notin {"+", "-", "*", "/"} THEN Throw("Unknown operator")
            ELSE IF t.value = "/" /\ b = Zero THEN Throw("Division by zero")
            ELSE LET v == CASE t.value = "+" -> NumAdd(a, b)
                            [] t.value = "-" -> NumSub(a, b)
                            [] t.value = "*" -> NumMul(a, b)
                            [] t.value = "/" -> NumDiv(a, b)
                 IN [ok |-> TRUE, st |-> Append(rest, v)]
  ELSE Throw("Invalid token")

\* one iteration of the for loop of evalRpn, on the token t and the stack s
evalRpnStep(t, s) ==
  IF t.type = "num" THEN [ok |-> TRUE, st |-> Append(s, t.value)]
  ELSE IF t.type = "op" THEN
    IF t.value = "u+" \/ t.value = "u-" THEN
      IF Len(s) < 1 THEN Throw("Invalid expression")
      ELSE LET a == Top(s) IN
           [ok |-> TRUE, st |-> Append(Pop(s), IF t.value = "u-" THEN Neg(a) ELSE a)]
    ELSE IF Len(s) < 2 THEN Throw("Invalid expression")
    ELSE LET b == Top(s)
             a == Top(Pop(s))
             rest == Pop(Pop(s))
         IN IF t.value \notin {"+", "-", "*", "/"} THEN Throw("Unknown operator")
            ELSE IF t.value = "/" /\ b = Zero THEN Throw("Division by zero")
            ELSE pushFinite(rest, CASE t.value = "+" -> NumAdd(a, b)
                                    [] t.value = "-" -> NumSub(a, b)
                                    [] t.value = "*" -> NumMul(a, b)
                                    [] t.value = "/" -> NumDiv(a, b))
  ELSE Throw("Invalid token")

\* the stack as the iteration on the token t leaves it, e being what the
\* iteration gives: a binary operator has popped both operands when it throws
\* for an unknown operator, a division by zero or a result that is not
\* finite; the throws for a missing operand come before any pop
evalRpnStepStack(t, s, e) ==
  IF e.ok THEN e.st
  ELSE IF t.type = "op" /\ t.value \notin {"u+", "u-"} /\ Len(s) >= 2 THEN Pop(Pop(s))
  ELSE s

\* the end of evalRpn
evalRpnReturn(s) ==
  IF Len(s) # 1 THEN Throw("Invalid expression") ELSE Return(s[1])

RECURSIVE evalRpnFrom(_, _, _)
\* the loop goes on after the step e on the token at k, unless it threw
evalRpnNext(r, k, e) == IF ~e.ok THEN e ELSE evalRpnFrom(r, k + 1, e.st)

evalRpnFrom(r, k, s) ==
  IF k > Len(r) THEN evalRpnReturn(s) ELSE evalRpnNext(r, k, evalRpnStep(r[k], s))

evalRpn(r) == evalRpnFrom(r, 1, <<>>)

(***************************************************************************)
(* evaluate                                                                *)
(***************************************************************************)
\* evaluate after toRpn gave r
evaluateRpn(r) == IF ~r.ok THEN r ELSE evalRpn(r.rpn)

\* evaluate after tokenize gave t
evaluateTokens(t) ==
  IF ~t.ok THEN t
  ELSE IF Len(t.tokens) = 0 THEN Return(Zero)
  ELSE evaluateRpn(toRpn(t.tokens))

evaluate(input) == evaluateTokens(tokenize(input))

(***************************************************************************)
(* String(value): Number::toString.                                        *)
(***************************************************************************)
DigitChar(k) == <<"0", "1", "2", "3", "4", "5", "6", "7", "8", "9">>[k + 1]

\* the decimal digits of the integer n >= 0, none for 0
RECURSIVE IntDigits(_)
IntDigits(n) == IF n = 0 THEN <<>> ELSE Append(IntDigits(n \div 10), DigitChar(n % 10))

\* the decimal digits of the natural number x, none for 0
RECURSIVE BigDigits(_)
BigDigits(x) ==
  IF Len(x) = 0 THEN <<>>
  ELSE LET d == BigDivMod(x, <<10>>)
       IN Append(BigDigits(d.q), DigitChar(Limb(d.r, 1)))

\* ds without the zeros at its end
StripZeros(ds) ==
  LET z == CHOOSE c \in 0..Len(ds) :
             /\ c = Len(ds) \/ ds[Len(ds) - c] # "0"
             /\ \A k \in (Len(ds) - c + 1)..Len(ds) : ds[k] = "0"
  IN SubSeq(ds, 1, Len(ds) - z)

\* n * 2^u / 10^q for a natural number n: the whole part q of the quotient
\* and whether a fraction r is left.  10^q is 5^q * 2^q.
ScaledDiv(n, u, q) ==
  ShiftedDiv(BigMul(n, BigPow5(IF q < 0 THEN -q ELSE 0)), u - q,
             BigPow5(IF q > 0 THEN q ELSE 0))

\* the number of decimal digits of w, for 10^17 <= w < 10^22
DigitCount(w) ==
  CHOOSE k \in 18..22 : BigCmp(w, BigPow10(k - 1)) >= 0 /\ BigCmp(w, BigPow10(k)) < 0

\* The decimals that read back as the double v are those of an interval
\* around v that ends half way to the doubles next to v.  In units of 10^q0
\* the record holds v as w + a fraction (some when rw), the low end as
\* lo + a fraction (some when rlo) and the high end as hi + a fraction (some
\* when rhi); the ends belong to the interval when closed (the mantissa of v
\* is even); w has len decimal digits.
Interval(dv, dlo, dhi, closed) ==
  [w |-> dv.q, rw |-> dv.r, lo |-> dlo.q, rlo |-> dlo.r, hi |-> dhi.q, rhi |-> dhi.r,
   closed |-> closed, len |-> DigitCount(dv.q)]

\* The natural number c (in units of 10^q0) is in the interval
InInterval(x, c) ==
  /\ \/ BigCmp(c, x.lo) > 0
     \/ BigCmp(c, x.lo) = 0 /\ ~x.rlo /\ x.closed
  /\ \/ BigCmp(c, x.hi) < 0
     \/ BigCmp(c, x.hi) = 0 /\ (x.rhi \/ x.closed)

\* Nearest for the power of ten p == 10^(len - k) and the division d of w by
\* p: s is d.q, and w is above s * p by d.r
NearestOf(x, p, d) ==
  LET down == BigSub(x.w, d.r)
      side == BigCmp(d.r, BigShr(p, 1))
  IN IF InInterval(x, down) /\ InInterval(x, BigAdd(down, p))
       THEN (IF side < 0 \/ (side = 0 /\ ~x.rw /\ Limb(d.q, 1) % 2 = 0)
               THEN d.q ELSE BigAdd(d.q, <<1>>))
     ELSE IF InInterval(x, down) THEN d.q
     ELSE IF InInterval(x, BigAdd(down, p)) THEN BigAdd(d.q, <<1>>)
     ELSE <<>>

\* the integer s of k digits (or 10^k) for which s * 10^(len - k) is in the
\* interval and nearest to v, the even one of two equally near; none is <<>>
Nearest(x, k) ==
  NearestOf(x, BigPow10(x.len - k), BigDivMod(x.w, BigPow10(x.len - k)))

\* the least number k of digits, from k on, with a decimal in the interval,
\* and its integer s; 17 digits always do
RECURSIVE Shortest(_, _)
ShortestOr(x, k, s) ==
  IF Len(s) > 0 \/ k >= 17 THEN [k |-> k, s |-> s] ELSE Shortest(x, k + 1)

Shortest(x, k) == ShortestOr(x, k, Nearest(x, k))

\* the digits of the integer sh.s of sh.k digits, without the zeros at the
\* end, and the position of the decimal point when that of sh.s is at n
DigitsOf(sh, n) ==
  [digits |-> StripZeros(BigDigits(sh.s)), n |-> n - sh.k + Len(BigDigits(sh.s))]

\* the shortest digits of the interval x, counted in units of 10^q0
ShortestDigits(x, q0) == DigitsOf(Shortest(x, 1), q0 + x.len)

\* the significant digits of the finite number v > 0 and the position n of
\* its decimal point, v = 0.digits * 10^n: the fewest digits that read back
\* as v.  With b the number of binary digits of v and ue the exponent of the
\* last binary digit of its mantissa, the doubles next to v are 2^ue away
\* (half of that below a power of two); all is counted in units of 2^(ue-2).
Significand(v) ==
  LET m == v[2]
      e == v[3]
      b == BigBitLen(m) + e
      ue == IF b - 53 > -1074 THEN b - 53 ELSE -1074
      vn == BigShl(m, e - ue + 2)
      below == IF m = <<1>> /\ ue > -1074 THEN <<1>> ELSE <<2>>
      q0 == ((b - 1) * 30103) \div 100000 - 19
  IN ShortestDigits(Interval(ScaledDiv(vn, ue - 2, q0),
                             ScaledDiv(BigSub(vn, below), ue - 2, q0),
                             ScaledDiv(BigAdd(vn, <<2>>), ue - 2, q0),
                             e > ue),
                    q0)

\* the decimal digits of the integer n >= 0, "0" for 0
IntString(n) == IF n = 0 THEN <<"0">> ELSE IntDigits(n)

\* the notation of Number::toString for the digits sg.digits with the
\* decimal point at sg.n
Notation(sg) ==
  LET ds == sg.digits
      k == Len(ds)
      n == sg.n
  IN IF k <= n /\ n <= 21 THEN ds \o [i \in 1..(n - k) |-> "0"]
     ELSE IF 0 < n /\ n <= 21 THEN SubSeq(ds, 1, n) \o <<".">> \o SubSeq(ds, n + 1, k)
     ELSE IF -6 < n /\ n <= 0 THEN <<"0", ".">> \o [i \in 1..(-n) |-> "0"] \o ds
     ELSE LET ex == <<"e", IF n - 1 < 0 THEN "-" ELSE "+">> \o IntString(Abs(n - 1))
          IN IF k = 1 THEN ds \o ex
             ELSE <<ds[1], ".">> \o SubSeq(ds, 2, k) \o ex

\* Number::toString of a number v > 0
PositiveToString(v) == Notation(Significand(v))

\* String(v)
NumToString(v) ==
  IF v = NaN THEN <<"N", "a", "N">>
  ELSE IF v = Infinity THEN <<"I", "n", "f", "i", "n", "i", "t", "y">>
  ELSE IF v = NegInfinity THEN <<"-", "I", "n", "f", "i", "n", "i", "t", "y">>
  ELSE IF v = Zero THEN <<"0">>
  ELSE (IF v[1] < 0 THEN <<"-">> ELSE <<>>) \o PositiveToString(<<1, v[2], v[3]>>)

(***************************************************************************)
(* The UI: its state is a record u with the fields                         *)
(*   expression   the text being edited                                    *)
(*   lastResult   the last value that preview computed                     *)
(*   result       the result display: isError tells whether it shows the   *)
(*                text "Error" in the error style; otherwise it shows      *)
(*                formatNumber(value)                                      *)
(*   status       the text of the status line                              *)
(*   storage      the array stored in localStorage under HISTORY_KEY,      *)
(*                empty when nothing is stored or what is stored is no     *)
(*                array; the history list of the page shows its entries    *)
(* Two inputs come from the browser: now, the value of Date.now(), and w,  *)
(* what a call of localStorage.setItem or removeItem does: it returns      *)
(* (Stored), or it throws an exception (quota exceeded, storage disabled). *)
(***************************************************************************)
\* s.slice(0, n)
SliceTo(str, n) == IF Len(str) > n THEN SubSeq(str, 1, n) ELSE str

\* s.slice(0, -1)
DropLast(str) == SubSeq(str, 1, Len(str) - 1)

\* s.slice(-1): the last character, "" for the empty string
LastChar(str) == IF Len(str) = 0 THEN "" ELSE str[Len(str)]

\* !s.trim()
IsBlank(str) == \A k \in 1..Len(str) : IsSpace(str[k])

\* setResult(value)
ShowNumber(v) == [isError |-> FALSE, value |-> v]

\* setResult("Error", { isError: true })
ShowError == [isError |-> TRUE, value |-> Zero]

\* preview() after evaluate(expression) returned or threw r
previewOf(u, r) ==
  IF r.ok THEN [u EXCEPT !.lastResult = r.value, !.result = ShowNumber(r.value)]
  ELSE [u EXCEPT !.result = ShowNumber(u.lastResult)]

\* preview()
preview(u) ==
  IF IsBlank(u.expression) THEN [u EXCEPT !.result = ShowNumber(Zero)]
  ELSE previewOf(u, evaluate(u.expression))

\* mutant of setExpression: the new text is not cut at MAX_EXPR_LEN
setExpression_NoSlice(u, next) ==
  preview([u EXCEPT !.expression = next, !.status = ""])

\* setExpression(next)
setExpression(u, next) ==
  preview([u EXCEPT !.expression = SliceTo(next, MAX_EXPR_LEN), !.status = ""])

\* expression.split(/[\+\-\*\/\(\)]/).pop(): what follows the last operator
\* or parenthesis
LastSegment(str) ==
  LET seps == {k \in 1..Len(str) : str[k] \in {"+", "-", "*", "/", "(", ")"}}
  IN IF seps = {} THEN str
     ELSE SubSeq(str, (CHOOSE k \in seps : \A m \in seps : m <= k) + 1, Len(str))

\* isOperator(v) for a string v
IsOperatorKey(v) == Len(v) = 1 /\ isOperator(v[1])

\* /\d/.test(v) for a string v
HasDigit(v) == \E k \in 1..Len(v) : IsDigit(v[k])

\* mutant of appendValue: an operator typed after an operator is appended
\* instead of replacing it
appendValue_KeepsOperator(u, v) ==
  LET expr == u.expression
      last == LastChar(expr)
      seg == LastSegment(expr)
  IN IF Len(v) = 0 THEN u
     ELSE IF Len(expr) >= MAX_EXPR_LEN THEN u
     ELSE IF IsOperatorKey(v) /\ Len(expr) = 0 /\ v # <<"-">> THEN u
     ELSE IF v = <<".">> /\ (\E k \in 1..Len(seg) : seg[k] = ".") THEN u
     ELSE IF v = <<".">> /\ Len(seg) = 0 THEN setExpression(u, expr \o <<"0", ".">>)
     ELSE IF v = <<"(">> THEN
       IF IsDigit(last) \/ last = ")" THEN setExpression(u, expr \o <<"*", "(">>)
       ELSE setExpression(u, expr \o <<"(">>)
     ELSE IF HasDigit(v) THEN
       IF last = ")" THEN setExpression(u, expr \o <<"*">> \o v)
       ELSE setExpression(u, expr \o v)
     ELSE setExpression(u, expr \o v)

\* appendValue(v), for a string v: the value of a button or the name of a key
appendValue(u, v) ==
  LET expr == u.expression
      last == LastChar(expr)
      seg == LastSegment(expr)
  IN IF Len(v) = 0 THEN u
     ELSE IF Len(expr) >= MAX_EXPR_LEN THEN u
     ELSE IF IsOperatorKey(v) /\ Len(expr) = 0 /\ v # <<"-">> THEN u
     ELSE IF IsOperatorKey(v) /\ isOperator(last) THEN setExpression(u, DropLast(expr) \o v)
     ELSE IF v = <<".">> /\ (\E k \in 1..Len(seg) : seg[k] = ".") THEN u
     ELSE IF v = <<".">> /\ Len(seg) = 0 THEN setExpression(u, expr \o <<"0", ".">>)
     ELSE IF v = <<"(">> THEN
       IF IsDigit(last) \/ last = ")" THEN setExpression(u, expr \o <<"*", "(">>)
       ELSE setExpression(u, expr \o <<"(">>)
     ELSE IF HasDigit(v) THEN
       IF last = ")" THEN setExpression(u, expr \o <<"*">> \o v)
       ELSE setExpression(u, expr \o v)
     ELSE setExpression(u, expr \o v)

\* clearAll()
clearAll(u) ==
  [u EXCEPT !.expression = <<>>, !.lastResult = Zero,
            !.result = ShowNumber(Zero), !.status = ""]

\* backspace()
backspace(u) ==
  IF Len(u.expression) = 0 THEN u ELSE setExpression(u, DropLast(u.expression))

\* the end of the longest match of -?\d+(\.\d+)? that starts at p, 0 if none
NumberMatchEnd(str, p) ==
  LET d0 == IF str[p] = "-" THEN p + 1 ELSE p
      DigitsEnd(i) == LET stops == {j \in i..(Len(str) + 1) :
                                      j > Len(str) \/ ~IsDigit(str[j])}
                      IN CHOOSE j \in stops : \A k \in stops : j <= k
  IN IF d0 > Len(str) \/ ~IsDigit(str[d0]) THEN 0
     ELSE LET e1 == DigitsEnd(d0)
          IN IF e1 + 1 <= Len(str) /\ str[e1] = "." /\ IsDigit(str[e1 + 1])
               THEN DigitsEnd(e1 + 1) - 1
               ELSE e1 - 1

\* the last position of the line of str that holds position p
LineEnd(str, p) ==
  LET ends == {j \in p..Len(str) : j = Len(str) \/ IsLineTerminator(str[j + 1])}
  IN CHOOSE j \in ends : \A k \in ends : j <= k

\* the first position of the line of str that holds position p
LineStart(str, p) ==
  LET starts == {j \in 1..p : j = 1 \/ IsLineTerminator(str[j - 1])}
  IN CHOOSE j \in starts : \A k \in starts : k <= j

\* the match of /(.*?)(-?\d+(\.\d+)?)(?!.*\d)/ : the least p at which a number
\* matches with no digit after it in the same line, since "." matches no line
\* terminator; 0 if there is none
ToggleMatch(str) ==
  LET ps == {p \in 1..Len(str) :
               /\ NumberMatchEnd(str, p) # 0
               /\ \A k \in (NumberMatchEnd(str, p) + 1)..LineEnd(str, p) : ~IsDigit(str[k])}
  IN IF ps = {} THEN 0 ELSE CHOOSE p \in ps : \A m \in ps : p <= m

\* toggleSign(): the match starts at the start of the line of the number, so
\* m[1] is what lies between that start and the number
toggleSign(u) ==
  LET expr == u.expression
      p == ToggleMatch(expr)
  IN IF p = 0 THEN (IF Len(expr) = 0 THEN setExpression(u, <<"-">>) ELSE u)
     ELSE LET before == SubSeq(expr, LineStart(expr, p), p - 1)
              num == SubSeq(expr, p, NumberMatchEnd(expr, p))
              toggled == IF num[1] = "-" THEN Tail(num) ELSE <<"-">> \o num
          IN setExpression(u, before \o toggled)

\* localStorage.setItem or removeItem returned
Stored == [ok |-> TRUE]

\* the message of the exception that localStorage.setItem or removeItem throws;
\* its text is the browser's
StorageMessage == "The quota has been exceeded."

\* what a call of localStorage.setItem or removeItem does
StorageOutcomes == {Stored, Throw(StorageMessage)}

\* loadHistory()
loadHistory(u) == u.storage

\* mutant of saveHistory: the items are stored without the cut at HISTORY_LIMIT
saveHistory_KeepsAll(u, items, w) ==
  IF w.ok THEN [ok |-> TRUE, ui |-> [u EXCEPT !.storage = items]] ELSE w

\* saveHistory(items): the UI after it, or the exception of setItem
saveHistory(u, items, w) ==
  IF w.ok THEN [ok |-> TRUE, ui |-> [u EXCEPT !.storage = SliceTo(items, HISTORY_LIMIT)]]
  ELSE w

\* addHistory(expr, result) at the time now; renderHistory shows the stored
\* items
addHistory(u, expr, res, now, w) ==
  saveHistory(u, <<[expr |-> expr, result |-> res, ts |-> now]>> \o loadHistory(u), w)

\* clearHistory(); when removeItem throws, nothing of it takes place
clearHistory(u, w) ==
  IF w.ok THEN [u EXCEPT !.storage = <<>>, !.status = "History cleared"] ELSE u

\* equals() after addHistory(expression, value) returned or threw h
equalsSaved(u, v, h) ==
  IF h.ok THEN [setExpression(h.ui, NumToString(v)) EXCEPT !.status = "Saved to history"]
  ELSE [u EXCEPT !.result = ShowError, !.status = h.error]

\* mutant of equalsOf: the history entry is added before the evaluation is
\* known to have succeeded
equalsOf_SavesFailure(u, r, now, w) ==
  IF r.ok THEN equalsSaved(u, r.value, addHistory(u, u.expression, r.value, now, w))
  ELSE IF w.ok
    THEN [addHistory(u, u.expression, u.lastResult, now, w).ui
            EXCEPT !.result = ShowError, !.status = r.error]
    ELSE [u EXCEPT !.result = ShowError, !.status = r.error]

\* equals() after evaluate(expression) returned or threw r
equalsOf(u, r, now, w) ==
  IF r.ok THEN equalsSaved(u, r.value, addHistory(u, u.expression, r.value, now, w))
  ELSE [u EXCEPT !.result = ShowError, !.status = r.error]

\* equals()
equals(u, now, w) ==
  IF IsBlank(u.expression) THEN u ELSE equalsOf(u, evaluate(u.expression), now, w)

\* a click on the history item i, or the key " " on it
selectHistory(u, i) == setExpression(u, u.storage[i].expr)

\* the key Enter on the history item i: the listener of the item selects it,
\* the event goes on to the listener of the document, which calls equals()
enterHistory(u, i, now, w) == equals(selectHistory(u, i), now, w)

\* the names of the keys
Escape == <<"E", "s", "c", "a", "p", "e">>
BackspaceKey == <<"B", "a", "c", "k", "s", "p", "a", "c", "e">>
Enter == <<"E", "n", "t", "e", "r">>

\* the keydown listener of the document, for the key named key
keydown(u, key, now, w) ==
  IF key = Escape THEN clearAll(u)
  ELSE IF key = BackspaceKey THEN backspace(u)
  ELSE IF key = Enter \/ key = <<"=">> THEN equals(u, now, w)
  ELSE IF key = <<"(">> \/ key = <<")">> \/ key = <<".">> \/ HasDigit(key) \/ IsOperatorKey(key)
    THEN appendValue(u, key)
  ELSE u

(***************************************************************************)
(* State.                                                                  *)
(*   One call of evaluate, run stage by stage:                             *)
(*     input    the argument of evaluate                                   *)
(*     pc       the stage the call is in: "idle" (no call), "tokenize",    *)
(*              "toRpn", "evalRpn", "done"                                 *)
(*     tokens   the result of tokenize                                     *)
(*     out, ops, idx   the locals of toRpn                                 *)
(*     rpn      the result of toRpn, the argument of evalRpn               *)
(*     st, pos  the operand stack of evalRpn and the index of its loop     *)
(*     outcome  what the call returned or threw; Pending before that       *)
(***************************************************************************)
VARIABLES input, pc, tokens, out, ops, idx, rpn, st, pos, outcome

\* The UI state (see above), and what the model records of the past:
\*   saves  the number of entries added to the history since the page was
\*          loaded
\*   log    the entries loaded with the page or added since, back to the last
\*          clearHistory, newest first and without any cut
\*   prev   the input and the outcome of the last call of evaluate that
\*          ended, with whether lastResult was 0 and whether the history was
\*          empty at that time; NoCall before the first one
VARIABLES expression, lastResult, result, status, storage, saves, log, prev

evalVars == <<input, pc, tokens, out, ops, idx, rpn, st, pos, outcome>>

uiVars == <<expression, lastResult, result, status, storage, saves, log>>

vars == <<input, pc, tokens, out, ops, idx, rpn, st, pos, outcome,
          expression, lastResult, result, status, storage, saves, log, prev>>

NoCall == [called |-> FALSE]

\* the UI state as a record
UI ==
  [expression |-> expression, lastResult |-> lastResult, result |-> result,
   status |-> status, storage |-> storage]

\* the UI state becomes u
SetUI(u) ==
  /\ expression' = u.expression
  /\ lastResult' = u.lastResult
  /\ result' = u.result
  /\ status' = u.status
  /\ storage' = u.storage

\* the UI after the script has loaded in a page whose localStorage holds the
\* history h: renderHistory() showed h, preview() ran on the empty expression
InitUI(h) ==
  /\ expression = <<>>
  /\ lastResult = Zero
  /\ result = ShowNumber(Zero)
  /\ status = ""
  /\ storage = h
  /\ saves = 0
  /\ log = h
  /\ prev = NoCall

\* a stored entry
Entry(e, r, t) == [expr |-> e, result |-> r, ts |-> t]

\* the entry that addHistory stores at the time t for the expression e
EntryOf(e, t) == Entry(e, evaluate(e).value, t)

\* a stored history of n entries with the expression "9", added at the times
\* 1 to n
Stock(n) == [i \in 1..n |-> EntryOf(<<"9">>, n + 1 - i)]

Pending == [pending |-> TRUE]

\* the strings over the characters cs of length at most n
StringsUpTo(cs, n) == UNION {[1..k -> cs] : k \in 0..n}

\* characters of the inputs that exercise toRpn and evalRpn
ExprChars == {"0", "9", "+", "-", "*", "/", "(", ")"}

\* characters of the inputs that exercise tokenize
ScanChars == {"0", "9", ".", " ", "&", "(", ")", "/"}

\* a call evaluate(s) begins
Call(s) ==
  /\ input = s
  /\ pc = "tokenize"
  /\ tokens = <<>>
  /\ out = <<>>
  /\ ops = <<>>
  /\ idx = 1
  /\ rpn = <<>>
  /\ st = <<>>
  /\ pos = 1
  /\ outcome = Pending
  /\ InitUI(<<>>)

\* literals at the edges of the range of a double: 9e200, 9e-201, and 2e308,
\* which is more than Number.MAX_VALUE
Repeat(c, k) == [i \in 1..k |-> c]
BigLiteral == <<"9">> \o Repeat("0", 200)
TinyLiteral == <<".">> \o Repeat("0", 200) \o <<"9">>
HugeLiteral == <<"2">> \o Repeat("0", 308)

\* the words of the long inputs
LongWords == {BigLiteral, TinyLiteral, HugeLiteral, <<"*">>, <<"/">>, <<")">>, <<"&">>}

RECURSIVE Flatten(_)
Flatten(ws) == IF ws = <<>> THEN <<>> ELSE Head(ws) \o Flatten(Tail(ws))

\* the inputs made of at most MaxLongWords words of LongWords
LongInputs == {Flatten(ws) : ws \in StringsUpTo(LongWords, MaxLongWords)}

\* the 25 whitespace characters
SpaceChars == {" ", "\t", "\n", "\f", "\r", "", " "} \cup WideSpaces

\* inputs with each whitespace character alone, twice, and before, after and
\* inside a number
SpaceInputs ==
  UNION {{<<c>>, <<c, c>>, <<c, "9">>, <<"9", c>>, <<"9", c, "0">>} : c \in SpaceChars}

InitEval == \E s \in StringsUpTo(ExprChars, MaxExprChars) \cup LongInputs : Call(s)

InitScan ==
  \E s \in StringsUpTo(ScanChars, MaxScanChars) \cup LongInputs \cup SpaceInputs : Call(s)

\* mutant of Tokenize: no early return for an empty token sequence
Tokenize_NoEarlyReturn ==
  /\ pc = "tokenize"
  /\ LET t == tokenize(input) IN
     IF ~t.ok THEN
       /\ outcome' = t
       /\ pc' = "done"
       /\ UNCHANGED tokens
     ELSE
       /\ tokens' = t.tokens
       /\ pc' = "toRpn"
       /\ UNCHANGED outcome
  /\ UNCHANGED <<input, out, ops, idx, rpn, st, pos>>
  /\ UNCHANGED <<uiVars, prev>>

\* mutant of Tokenize: an empty token sequence returns lastResult
Tokenize_ReturnsLastResult ==
  /\ pc = "tokenize"
  /\ LET t == tokenize(input) IN
     IF ~t.ok THEN
       /\ outcome' = t
       /\ pc' = "done"
       /\ UNCHANGED tokens
     ELSE IF Len(t.tokens) = 0 THEN
       /\ outcome' = Return(lastResult)
       /\ pc' = "done"
       /\ tokens' = t.tokens
     ELSE
       /\ tokens' = t.tokens
       /\ pc' = "toRpn"
       /\ UNCHANGED outcome
  /\ UNCHANGED <<input, out, ops, idx, rpn, st, pos>>
  /\ UNCHANGED <<uiVars, prev>>

\* the start of evaluate: tokenize, and the early return of 0 for no token
Tokenize ==
  /\ pc = "tokenize"
  /\ LET t == tokenize(input) IN
     IF ~t.ok THEN
       /\ outcome' = t
       /\ pc' = "done"
       /\ UNCHANGED tokens
     ELSE IF Len(t.tokens) = 0 THEN
       /\ outcome' = Return(Zero)
       /\ pc' = "done"
       /\ tokens' = t.tokens
     ELSE
       /\ tokens' = t.tokens
       /\ pc' = "toRpn"
       /\ UNCHANGED outcome
  /\ UNCHANGED <<input, out, ops, idx, rpn, st, pos>>
  /\ UNCHANGED <<uiVars, prev>>

\* one iteration of the for loop of toRpn
ToRpnStep ==
  /\ pc = "toRpn"
  /\ idx <= Len(tokens)
  /\ LET r == toRpnStep(tokens, idx, out, ops)
         l == toRpnStepLocals(tokens, idx, out, ops, r)
     IN
     /\ out' = l.out
     /\ ops' = l.ops
     /\ IF ~r.ok THEN
          /\ outcome' = r
          /\ pc' = "done"
          /\ UNCHANGED idx
        ELSE
          /\ idx' = idx + 1
          /\ UNCHANGED <<outcome, pc>>
  /\ UNCHANGED <<input, tokens, rpn, st, pos>>
  /\ UNCHANGED <<uiVars, prev>>

\* the end of toRpn: the operator stack is emptied, and evaluate passes the
\* postfix sequence to evalRpn
ToRpnDrain ==
  /\ pc = "toRpn"
  /\ idx > Len(tokens)
  /\ LET r == toRpnDrain(out, ops)
         l == toRpnDrainLocals(out, ops)
     IN
     /\ out' = l.out
     /\ ops' = l.ops
     /\ IF ~r.ok THEN
          /\ outcome' = r
          /\ pc' = "done"
          /\ UNCHANGED rpn
        ELSE
          /\ rpn' = r.rpn
          /\ pc' = "evalRpn"
          /\ UNCHANGED outcome
  /\ UNCHANGED <<input, tokens, idx, st, pos>>
  /\ UNCHANGED <<uiVars, prev>>

\* one iteration of the for loop of evalRpn
EvalRpnStep ==
  /\ pc = "evalRpn"
  /\ pos <= Len(rpn)
  /\ LET e == evalRpnStep(rpn[pos], st) IN
     /\ st' = evalRpnStepStack(rpn[pos], st, e)
     /\ IF ~e.ok THEN
          /\ outcome' = e
          /\ pc' = "done"
          /\ UNCHANGED pos
        ELSE
          /\ pos' = pos + 1
          /\ UNCHANGED <<outcome, pc>>
  /\ UNCHANGED <<input, tokens, out, ops, idx, rpn>>
  /\ UNCHANGED <<uiVars, prev>>

\* the end of evalRpn: exactly one value must remain
EvalRpnReturn ==
  /\ pc = "evalRpn"
  /\ pos > Len(rpn)
  /\ outcome' = evalRpnReturn(st)
  /\ pc' = "done"
  /\ UNCHANGED <<input, tokens, out, ops, idx, rpn, st, pos>>
  /\ UNCHANGED <<uiVars, prev>>

NextEval == Tokenize \/ ToRpnStep \/ ToRpnDrain \/ EvalRpnStep \/ EvalRpnReturn

SpecEval == InitEval /\ [][NextEval]_vars

SpecScan == InitScan /\ [][NextEval]_vars

(***************************************************************************)
(* The UI handlers as actions.  The handlers run to completion, so they    *)
(* act only while no call of evaluate is under way (pc = "idle").          *)
(***************************************************************************)
\* values of Date.now(): a later call may see the same time as an earlier
\* one, or an earlier time when the clock of the system is set back
Times == {1, 2}

\* keys of the UI model
UIKeys == {<<"0">>, <<"/">>, <<"(">>}

\* keys of the UI model in which evaluate is also called stage by stage
AppKeys == {<<"9">>}

\* inputs on which the UI model calls evaluate stage by stage
ProbeInputs == {<<"9", "/", "0">>, <<" ", "9">>}

\* a history found in localStorage when the page loads.  Any page of the same
\* origin can store under the key, so an entry need not be one that equals()
\* stores: here the second is an expression that fails to evaluate, the third
\* a single whitespace character, and the fourth has two lines
UIHistory ==
  <<EntryOf(<<"0">>, 2), Entry(<<"0", "/", "0">>, Zero, 1),
    Entry(<<"U+1680">>, Zero, 1), EntryOf(<<"0", "\n", "0">>, 1)>>

Idle ==
  /\ input = <<>>
  /\ pc = "idle"
  /\ tokens = <<>>
  /\ out = <<>>
  /\ ops = <<>>
  /\ idx = 1
  /\ rpn = <<>>
  /\ st = <<>>
  /\ pos = 1
  /\ outcome = Pending

\* the page has loaded with one of the histories of hs in its localStorage
InitApp(hs) == Idle /\ \E h \in hs : InitUI(h)

\* equals() on the UI u stores an entry
Saves(u, w) == ~IsBlank(u.expression) /\ w.ok /\ evaluate(u.expression).ok

\* saves and log after equals() on the UI u at the time now
Logged(u, now, w) ==
  IF Saves(u, w)
    THEN /\ saves' = saves + 1
         /\ log' = <<EntryOf(u.expression, now)>> \o log
    ELSE UNCHANGED <<saves, log>>

\* a click on a value button or a key press: appendValue(v)
AppendValue(v) ==
  /\ pc = "idle"
  /\ Len(expression) < MaxTyped
  /\ SetUI(appendValue(UI, v))
  /\ UNCHANGED <<evalVars, saves, log, prev>>

ClearAll ==
  /\ pc = "idle"
  /\ SetUI(clearAll(UI))
  /\ UNCHANGED <<evalVars, saves, log, prev>>

Backspace ==
  /\ pc = "idle"
  /\ SetUI(backspace(UI))
  /\ UNCHANGED <<evalVars, saves, log, prev>>

ToggleSign ==
  /\ pc = "idle"
  /\ SetUI(toggleSign(UI))
  /\ UNCHANGED <<evalVars, saves, log, prev>>

\* equals() at the time now, with the outcome w of setItem
Equals(now, w) ==
  /\ pc = "idle"
  /\ SetUI(equals(UI, now, w))
  /\ Logged(UI, now, w)
  /\ UNCHANGED <<evalVars, prev>>

\* clearHistory(), with the outcome w of removeItem
ClearHistory(w) ==
  /\ pc = "idle"
  /\ SetUI(clearHistory(UI, w))
  /\ log' = IF w.ok THEN <<>> ELSE log
  /\ UNCHANGED <<evalVars, saves, prev>>

\* a click, or the key " ", on the history item i
SelectHistory(i) ==
  /\ pc = "idle"
  /\ i \in 1..Len(storage)
  /\ SetUI(selectHistory(UI, i))
  /\ UNCHANGED <<evalVars, saves, log, prev>>

\* the key Enter on the history item i
EnterHistory(i, now, w) ==
  /\ pc = "idle"
  /\ i \in 1..Len(storage)
  /\ SetUI(enterHistory(UI, i, now, w))
  /\ Logged(selectHistory(UI, i), now, w)
  /\ UNCHANGED <<evalVars, prev>>

\* a key pressed outside the history list
KeyDown(key, now, w) ==
  /\ pc = "idle"
  /\ Len(expression) < MaxTyped \/ key \in {Escape, BackspaceKey, Enter, <<"=">>}
  /\ SetUI(keydown(UI, key, now, w))
  /\ IF key \in {Enter, <<"=">>} THEN Logged(UI, now, w) ELSE UNCHANGED <<saves, log>>
  /\ UNCHANGED <<evalVars, prev>>

\* equals() on the UI u adds no entry beyond the max-th of the behaviour
Room(max, u, w) == saves < max \/ ~Saves(u, w)

\* equals, with any time and outcome of the storage, as long as the history
\* has been added to less than MaxAdds times
EqualsUI ==
  \E now \in Times, w \in StorageOutcomes : Room(MaxAdds, UI, w) /\ Equals(now, w)

\* the same at one time
EqualsOnce == \E w \in StorageOutcomes : Room(MaxAdds, UI, w) /\ Equals(1, w)

\* the same when the storage accepts the entry
EqualsStored == Room(MaxAdds, UI, Stored) /\ Equals(1, Stored)

ClearHistoryUI == \E w \in StorageOutcomes : ClearHistory(w)

EnterHistoryUI ==
  \E i \in 1..Len(storage), now \in Times, w \in StorageOutcomes :
    Room(MaxAdds, selectHistory(UI, i), w) /\ EnterHistory(i, now, w)

\* the keys Enter and "=" pressed outside the history list
EqualsKeyUI ==
  \E key \in {Enter, <<"=">>}, now \in Times, w \in StorageOutcomes :
    Room(MaxAdds, UI, w) /\ KeyDown(key, now, w)

\* some caller calls evaluate(s)
CallEvaluate(s) ==
  /\ pc = "idle"
  /\ input' = s
  /\ pc' = "tokenize"
  /\ UNCHANGED <<tokens, out, ops, idx, rpn, st, pos, outcome, uiVars, prev>>

\* the call returns or throws to its caller
EndCall ==
  /\ pc = "done"
  /\ prev' = [called |-> TRUE, input |-> input, outcome |-> outcome,
               zero |-> lastResult = Zero, empty |-> storage = <<>>]
  /\ input' = <<>>
  /\ pc' = "idle"
  /\ tokens' = <<>>
  /\ out' = <<>>
  /\ ops' = <<>>
  /\ idx' = 1
  /\ rpn' = <<>>
  /\ st' = <<>>
  /\ pos' = 1
  /\ outcome' = Pending
  /\ UNCHANGED uiVars

NextUI ==
  \/ \E v \in UIKeys : AppendValue(v)
  \/ ClearAll
  \/ Backspace
  \/ ToggleSign
  \/ EqualsUI
  \/ ClearHistoryUI
  \/ \E i \in 1..Len(storage) : SelectHistory(i)
  \/ EnterHistoryUI
  \/ EqualsKeyUI

SpecUI == InitApp({<<>>, UIHistory}) /\ [][NextUI]_vars

NextApp ==
  \/ \E v \in AppKeys : AppendValue(v)
  \/ ClearAll
  \/ Backspace
  \/ ToggleSign
  \/ EqualsStored
  \/ ClearHistory(Stored)
  \/ \E i \in 1..Len(storage) : SelectHistory(i)
  \/ \E s \in ProbeInputs \cup {expression} : CallEvaluate(s)
  \/ Tokenize \/ ToRpnStep \/ ToRpnDrain \/ EvalRpnStep \/ EvalRpnReturn
  \/ EndCall

SpecApp == InitApp({<<>>}) /\ [][NextApp]_vars

\* the stage-by-stage call ends with the outcome of evaluate
DoneIsEvaluate == pc = "done" => outcome = evaluate(input)

(***************************************************************************)
(* Reference notions the claims are stated with.                           *)
(***************************************************************************)
\* the number of tokens of type ty among toks[i..k]
RECURSIVE CountType(_, _, _, _)
CountType(toks, i, k, ty) ==
  IF k < i THEN 0
  ELSE CountType(toks, i, k - 1, ty) + (IF toks[k].type = ty THEN 1 ELSE 0)

\* the parenthesis depth after toks[i..k]
Depth(toks, i, k) == CountType(toks, i, k, "(") - CountType(toks, i, k, ")")

\* balanced parentheses: no prefix closes more than it opens, all are closed
Balanced(toks) ==
  /\ \A k \in 1..Len(toks) : Depth(toks, 1, k) >= 0
  /\ Depth(toks, 1, Len(toks)) = 0

\* toks[k] is an operator in a binary position
IsBinaryAt(toks, k) ==
  /\ toks[k].type = "op"
  /\ k > 1
  /\ toks[k - 1].type \in {"num", ")"}

\* the binary operators among vs that stand in toks[i..j] outside parentheses
TopLevelOps(toks, i, j, vs) ==
  {k \in (i + 1)..j : /\ IsBinaryAt(toks, k)
                      /\ toks[k].value \in vs
                      /\ Depth(toks, i, k - 1) = 0}

Greatest(S) == CHOOSE k \in S : \A m \in S : m <= k

\* meaning of an infix expression: wf says it is well formed, def that no
\* division by zero or non-finite value occurs, value is then its value
IllFormed == [wf |-> FALSE, def |-> FALSE, value |-> Zero]
Undefined == [wf |-> TRUE, def |-> FALSE, value |-> Zero]
Defined(v) == IF IsFinite(v) THEN [wf |-> TRUE, def |-> TRUE, value |-> v] ELSE Undefined

RefBinary(op, l, r) ==
  IF ~l.wf \/ ~r.wf THEN IllFormed
  ELSE IF ~l.def \/ ~r.def THEN Undefined
  ELSE CASE op = "+" -> Defined(NumAdd(l.value, r.value))
         [] op = "-" -> Defined(NumSub(l.value, r.value))
         [] op = "*" -> Defined(NumMul(l.value, r.value))
         [] op = "/" -> IF r.value = Zero THEN Undefined
                        ELSE Defined(NumDiv(l.value, r.value))

RefUnary(op, e) ==
  IF ~e.wf THEN IllFormed
  ELSE IF ~e.def THEN Undefined
  ELSE IF op = "-" THEN Defined(Neg(e.value)) ELSE e

\* the standard reading of toks[i..j]: a sum of products of signed primaries,
\* binary operators grouping to the left
RECURSIVE RefValue(_, _, _)
RefValue(toks, i, j) ==
  IF i > j THEN IllFormed
  ELSE LET adds == TopLevelOps(toks, i, j, {"+", "-"})
           muls == TopLevelOps(toks, i, j, {"*", "/"})
       IN IF adds # {} THEN
            LET k == Greatest(adds) IN
            RefBinary(toks[k].value, RefValue(toks, i, k - 1), RefValue(toks, k + 1, j))
          ELSE IF muls # {} THEN
            LET k == Greatest(muls) IN
            RefBinary(toks[k].value, RefValue(toks, i, k - 1), RefValue(toks, k + 1, j))
          ELSE IF toks[i].type = "op" THEN
            IF toks[i].value \in {"+", "-"}
              THEN RefUnary(toks[i].value, RefValue(toks, i + 1, j))
              ELSE IllFormed
          ELSE IF toks[i].type = "(" THEN
            IF /\ toks[j].type = ")"
               /\ \A k \in i..(j - 1) : Depth(toks, i, k) >= 1
               /\ Depth(toks, i, j) = 0
              THEN RefValue(toks, i + 1, j - 1)
              ELSE IllFormed
          ELSE IF i = j /\ toks[i].type = "num" THEN Defined(toks[i].value)
          ELSE IllFormed

RefExpr(toks) == RefValue(toks, 1, Len(toks))


(***************************************************************************)
(* C1: a well-formed infix expression without division by zero and with    *)
(* finite values evaluates to the value of its standard reading: unary     *)
(* signs bind tighter than * and /, these tighter than binary + and -, and *)
(* binary operators group left to right.                                   *)
(***************************************************************************)
C1_StandardValue ==
  (pc = "done" /\ Len(tokens) > 0) =>
    LET e == RefExpr(tokens) IN
    (e.wf /\ e.def) => outcome = Return(e.value)

\* a - b - c returned (a - b) - c, which differs from a - (b - c)
C1_Witness ==
  /\ pc = "done"
  /\ Len(tokens) = 5
  /\ tokens[2].type = "op" /\ tokens[2].value = "-"
  /\ tokens[4].type = "op" /\ tokens[4].value = "-"
  /\ tokens[1].type = "num" /\ tokens[3].type = "num" /\ tokens[5].type = "num"
  /\ outcome.ok
  /\ outcome.value = NumSub(NumSub(tokens[1].value, tokens[3].value), tokens[5].value)
  /\ outcome.value # NumSub(tokens[1].value, NumSub(tokens[3].value, tokens[5].value))

(***************************************************************************)
(* C2: evaluate raises an error on every non-empty token sequence that is  *)
(* not a well-formed infix expression.                                     *)
(***************************************************************************)
C2_MalformedFails ==
  (pc = "done" /\ Len(tokens) > 0 /\ ~RefExpr(tokens).wf) => ~outcome.ok

(***************************************************************************)
(* C3: toRpn fails, with "Mismatched parentheses", exactly when the        *)
(* parentheses of the token sequence are unbalanced; with balanced         *)
(* parentheses it yields a postfix sequence, which reaches evalRpn.        *)
(***************************************************************************)
C3_MismatchIffUnbalanced ==
  /\ pc = "evalRpn" => Balanced(tokens)
  /\ (pc = "done" /\ Len(tokens) > 0) =>
       /\ outcome = Throw("Mismatched parentheses") <=> ~Balanced(tokens)
       /\ outcome # Throw("Invalid token")

\* toRpn failed at the end of the input on a "(" that is never closed
C3_Witness ==
  /\ pc = "done"
  /\ outcome = Throw("Mismatched parentheses")
  /\ idx > Len(tokens)
  /\ \A k \in 1..Len(tokens) : Depth(tokens, 1, k) >= 0
  /\ Depth(tokens, 1, Len(tokens)) > 0
  /\ CountType(tokens, 1, Len(tokens), ")") > 0

(***************************************************************************)
(* C4: when evalRpn reaches a binary / whose right operand is zero, it     *)
(* stops there with "Division by zero", never with "Result not finite":    *)
(* the two operands have been taken from the operand stack, no quotient is *)
(* pushed and no value is returned.                                        *)
(***************************************************************************)
AtDivisionByZero ==
  /\ pc = "evalRpn"
  /\ pos <= Len(rpn)
  /\ rpn[pos].type = "op" /\ rpn[pos].value = "/"
  /\ Len(st) >= 2
  /\ Top(st) = Zero

C4_DivisionByZero ==
  [][AtDivisionByZero =>
       /\ pc' = "done"
       /\ outcome' = Throw("Division by zero")
       /\ st' = Pop(Pop(st))]_vars

\* the division of a literal other than zero by the literal 0, whose quotient
\* would be an infinity, stopped with the error: the postfix sequence is at
\* the "/", and the stack holds neither operand nor a quotient
C4_Witness ==
  /\ pc = "done"
  /\ outcome = Throw("Division by zero")
  /\ pos = 3
  /\ rpn[3].type = "op" /\ rpn[3].value = "/"
  /\ rpn[1].type = "num" /\ rpn[1].value # Zero
  /\ rpn[2].type = "num" /\ rpn[2].value = Zero
  /\ st = <<>>

(***************************************************************************)
(* C9: evaluate never passes an empty postfix sequence to evalRpn.         *)
(***************************************************************************)
C9_NoEmptyPostfix == pc = "evalRpn" => Len(rpn) > 0

\* C9 as amended: only an empty token sequence is answered upstream with 0
\* and kept from evalRpn; a postfix sequence that is empty comes from tokens
\* that are all parentheses, reaches evalRpn and fails there with
\* "Invalid expression".
C9_EmptyTokensAnsweredUpstream ==
  /\ pc \in {"toRpn", "evalRpn"} => Len(tokens) > 0
  /\ (pc = "done" /\ tokenize(input).ok /\ Len(tokens) = 0) => outcome = Return(Zero)
  /\ (pc = "evalRpn" /\ Len(rpn) = 0) =>
       \A k \in 1..Len(tokens) : tokens[k].type \in {"(", ")"}
  /\ (pc = "done" /\ Len(tokens) > 0 /\ Balanced(tokens) /\ Len(rpn) = 0) =>
       outcome = Throw("Invalid expression")

\* "()" went through evalRpn with an empty postfix sequence
C9_Witness ==
  /\ pc = "done"
  /\ Len(tokens) > 0
  /\ Balanced(tokens)
  /\ Len(rpn) = 0
  /\ outcome = Throw("Invalid expression")

(***************************************************************************)
(* Reference notions for the claims about tokenize.                        *)
(***************************************************************************)
RECURSIVE DropSpaces(_)
DropSpaces(str) ==
  IF str = <<>> THEN <<>>
  ELSE IF Head(str) \in SpaceChars THEN DropSpaces(Tail(str))
  ELSE <<Head(str)>> \o DropSpaces(Tail(str))

\* the string without its whitespace characters
WithoutSpaces(str) ==
  IF \A k \in 1..Len(str) : str[k] \notin SpaceChars THEN str ELSE DropSpaces(str)

IsRunChar(c) == c \in Digits \cup {"."}

\* a maximal run of digits and '.' starts at position i of str
RunStartsAt(str, i) == IsRunChar(str[i]) /\ (i = 1 \/ ~IsRunChar(str[i - 1]))

RunStarts(str) == {i \in 1..Len(str) : RunStartsAt(str, i)}

\* the maximal run that starts at i: it ends at the first position from i on
\* that is the last of str or has no run character after it
RunAt(str, i) ==
  LET ends == {e \in i..Len(str) : e = Len(str) \/ ~IsRunChar(str[e + 1])}
  IN SubSeq(str, i, CHOOSE e \in ends : \A k \in ends : e <= k)

\* optional digits, an optional single '.', at least one digit: at most one
\* '.' in the run, and a digit at its end
WellFormedRun(raw) ==
  /\ Cardinality({k \in 1..Len(raw) : raw[k] = "."}) <= 1
  /\ raw[Len(raw)] \in Digits

\* the error that the character or run at position i calls for, "" if none
ErrorAt(str, i) ==
  IF ~IsRunChar(str[i])
    THEN (IF str[i] \in {"(", ")", "+", "-", "*", "/"} THEN ""
          ELSE "Unexpected character: " \o str[i])
  ELSE IF ~RunStartsAt(str, i) THEN ""
  ELSE IF ~WellFormedRun(RunAt(str, i)) THEN "Invalid number"
  ELSE IF ~IsFinite(Number(RunAt(str, i))) THEN "Number too large"
  ELSE ""

Offenders(str) == {i \in 1..Len(str) : ErrorAt(str, i) # ""}

Least(S) == CHOOSE k \in S : \A m \in S : k <= m

\* the call ended in tokenize with an error
TokenizeFailed == pc = "done" /\ Len(tokens) = 0 /\ ~outcome.ok

(***************************************************************************)
(* C5: the empty string and every string of whitespace evaluate to 0, and  *)
(* the outcome of any input is that of the input without its whitespace.   *)
(***************************************************************************)
C5_WhitespaceInsignificant ==
  pc = "done" =>
    /\ (\A k \in 1..Len(input) : input[k] \in SpaceChars) => outcome = Return(Zero)
    /\ outcome = evaluate(WithoutSpaces(input))

\* a space between two digits: both digits went into one number
C5_Witness ==
  /\ pc = "done"
  /\ outcome.ok
  /\ \E k \in 2..(Len(input) - 1) :
       /\ input[k] = " "
       /\ input[k - 1] \in Digits \ {"0"}
       /\ input[k + 1] \in Digits
  /\ Len(tokens) = 1

(***************************************************************************)
(* C6: the earliest failing stage decides the error.  The leftmost         *)
(* offending run or character of the input decides the error of tokenize,  *)
(* whatever parentheses or divisions the input holds; when tokenize        *)
(* succeeds, unbalanced parentheses give "Mismatched parentheses".         *)
(***************************************************************************)
C6_EarliestStageFails ==
  pc = "done" =>
    LET str == WithoutSpaces(input)
        off == Offenders(str)
    IN /\ off # {} => outcome = Throw(ErrorAt(str, Least(off)))
       /\ (off = {} /\ Len(tokens) > 0 /\ ~Balanced(tokens)) =>
            outcome = Throw("Mismatched parentheses")

\* two offenders calling for different errors, and a ")" that nothing opens
C6_Witness ==
  /\ pc = "done"
  /\ LET str == WithoutSpaces(input)
         off == Offenders(str)
     IN /\ \E i, j \in off : i < j /\ ErrorAt(str, i) # ErrorAt(str, j)
        /\ \E k \in 1..Len(str) : str[k] = ")"
        /\ \A k \in 1..Len(str) : str[k] # "("
        /\ outcome = Throw(ErrorAt(str, Least(off)))

(***************************************************************************)
(* C7: tokenize succeeds exactly when every maximal run of digits and '.'  *)
(* is well formed (optional digits, an optional single '.', at least one   *)
(* digit) and no other character than a parenthesis or + - * / occurs, and *)
(* it then yields one Number token for each run.                           *)
(***************************************************************************)
NumTokens(toks) == CountType(toks, 1, Len(toks), "num")

C7_RunBecomesNumber ==
  pc = "done" =>
    LET str == WithoutSpaces(input) IN
    (/\ \A i \in RunStarts(str) : WellFormedRun(RunAt(str, i))
     /\ \A i \in 1..Len(str) : IsRunChar(str[i]) \/ str[i] \in {"(", ")", "+", "-", "*", "/"})
      => ~TokenizeFailed /\ NumTokens(tokens) = Cardinality(RunStarts(str))

\* C7 as amended: tokenize succeeds exactly when, besides, the value of every
\* run is finite; the leftmost run that is not well formed fails with
\* "Invalid number", the leftmost well-formed run whose value is not finite
\* with "Number too large", the leftmost other character with
\* "Unexpected character" naming it.
C7_FiniteRunBecomesNumber ==
  pc = "done" =>
    LET str == WithoutSpaces(input)
        off == Offenders(str)
    IN /\ TokenizeFailed <=> off # {}
       /\ ~TokenizeFailed => NumTokens(tokens) = Cardinality(RunStarts(str))
       /\ TokenizeFailed =>
            LET i == Least(off) IN
            outcome = Throw(IF ~IsRunChar(str[i]) THEN "Unexpected character: " \o str[i]
                            ELSE IF ~WellFormedRun(RunAt(str, i)) THEN "Invalid number"
                            ELSE "Number too large")

\* a well-formed run of 309 digits, more than a double can hold, failed with
\* "Number too large"
C7_Witness ==
  /\ pc = "done"
  /\ TokenizeFailed
  /\ outcome = Throw("Number too large")
  /\ LET str == WithoutSpaces(input) IN
     /\ \A i \in RunStarts(str) : WellFormedRun(RunAt(str, i))
     /\ \A i \in 1..Len(str) : IsRunChar(str[i]) \/ str[i] \in {"(", ")", "+", "-", "*", "/"}

(***************************************************************************)
(* C8: evaluate is a pure function of its input: a call changes nothing of *)
(* the UI state (expression, lastResult, displays, history), and two calls *)
(* on the same input have the same outcome whatever the UI did in between. *)
(***************************************************************************)
C8_EvaluateIsPure ==
  /\ [](( /\ pc = "done"
          /\ prev # NoCall
          /\ prev.input = input ) => outcome = prev.outcome)
  /\ [][(pc # "idle" \/ pc' # "idle") => UNCHANGED uiVars]_vars

\* the same input evaluated again after the UI changed lastResult and the
\* history
C8_Witness ==
  /\ pc = "done"
  /\ prev # NoCall
  /\ prev.input = input
  /\ prev.zero # (lastResult = Zero)
  /\ prev.empty # (storage = <<>>)
  /\ outcome = prev.outcome

(***************************************************************************)
(* C10: an equals on a non-blank expression whose evaluation fails leaves  *)
(* the history and the expression as they are, shows an error in the       *)
(* result display and the message of the error in the status; the history  *)
(* gains an entry only in an equals whose evaluation succeeded.            *)
(***************************************************************************)
\* the text that the selection of the history item i makes the expression
Selected(i) == SliceTo(storage[i].expr, MAX_EXPR_LEN)

\* the step calls equals() on the expression e: by the button or a key on the
\* present expression, or by the key Enter on a history item with the text e
EqualsOn(e) ==
  \E now \in Times, w \in StorageOutcomes :
    \/ e = expression /\ Equals(now, w)
    \/ e = expression /\ KeyDown(Enter, now, w)
    \/ e = expression /\ KeyDown(<<"=">>, now, w)
    \/ \E i \in 1..Len(storage) : e = Selected(i) /\ EnterHistory(i, now, w)

\* the expressions on which a step can call equals()
EqualsTexts == {expression} \cup {Selected(i) : i \in 1..Len(storage)}

C10_FailedEqualsKeepsHistory ==
  [][ /\ \A e \in EqualsTexts :
           (~IsBlank(e) /\ ~evaluate(e).ok /\ EqualsOn(e)) =>
             /\ storage' = storage
             /\ expression' = e
             /\ result'.isError
             /\ status' = evaluate(e).error
      /\ (storage' # storage /\ storage' # <<>>) =>
           \E e \in EqualsTexts :
             /\ storage'[1].expr = e
             /\ Tail(storage') = SliceTo(storage, HISTORY_LIMIT - 1)
             /\ ~IsBlank(e)
             /\ evaluate(e).ok
             /\ storage'[1].result = evaluate(e).value
             /\ EqualsOn(e) ]_vars

\* an equals on a division by zero failed after the history had gained an
\* entry
C10_Witness ==
  /\ result.isError
  /\ status = "Division by zero"
  /\ saves > 0
  /\ Len(storage) > 0
  /\ ~IsBlank(expression)
  /\ ~evaluate(expression).ok

(***************************************************************************)
(* The history on its own: one expression, "9", is typed and equals is     *)
(* pressed up to MaxSaves times, with clearHistory and clearAll in         *)
(* between.                                                                *)
(***************************************************************************)
\* the first key of an expression
TypeFirst == expression = <<>> /\ AppendValue(<<"9">>)

\* Date.now() in the model of the history: later than the times of the loaded
\* entries, and one millisecond later at each addition
HistTime == HISTORY_LIMIT + saves + 1

\* equals, as long as the history has been added to less than MaxSaves times
EqualsHist ==
  \E w \in StorageOutcomes : Room(MaxSaves, UI, w) /\ Equals(HistTime, w)

NextHist == TypeFirst \/ EqualsHist \/ ClearHistoryUI \/ ClearAll

\* the histories that the page is loaded with, each one that saveHistory can
\* have stored: none, one entry, HISTORY_LIMIT entries
HistHistories == {Stock(n) : n \in {0, 1, HISTORY_LIMIT}}

SpecHist == InitApp(HistHistories) /\ [][NextHist]_vars

\* the step is an equals of SpecHist that stores an entry
SavingEquals == Saves(UI, Stored) /\ Equals(HistTime, Stored)

\* what C11 says of a step: an equals that stores adds its entry in front and
\* drops what is beyond the 20th, a clear empties the history, and nothing
\* else changes it
HistoryStep ==
  /\ SavingEquals =>
       /\ Len(storage') = (IF Len(storage) < 20 THEN Len(storage) + 1 ELSE 20)
       /\ storage'[1] = Entry(expression, evaluate(expression).value, HistTime)
       /\ \A i \in 2..Len(storage') : storage'[i] = storage[i - 1]
  /\ ClearHistory(Stored) => storage' = <<>>
  /\ storage' # storage => (SavingEquals \/ ClearHistory(Stored))

(***************************************************************************)
(* C11: after any sequence of operations the persisted history holds at    *)
(* most 20 entries, newest first, and they are the most recent successful  *)
(* evaluations since the last clear: the first 20 entries of the log, each *)
(* the expression and value of a successful evaluation.                    *)
(***************************************************************************)
C11_HistoryNewestTwenty ==
  /\ [](/\ Len(storage) <= 20
        /\ storage = SliceTo(log, 20)
        /\ \A i \in 1..Len(storage) :
             evaluate(storage[i].expr) = Return(storage[i].result))
  /\ [][HistoryStep]_vars

\* more than 20 entries were added since the last clear and the history holds
\* the 20 newest of them: the oldest it holds is not the first that was added
C11_Witness ==
  /\ Len(log) > 20
  /\ Len(storage) = 20
  /\ storage[1].ts = HISTORY_LIMIT + saves
  /\ storage[20].ts > HISTORY_LIMIT + 1

(***************************************************************************)
(* Long expressions: the digit 9 is typed from the start until the history *)
(* holds an entry; the sign toggle, backspace and equals act once the      *)
(* expression is within two characters of MAX_EXPR_LEN.                    *)
(***************************************************************************)
NearFull == Len(expression) >= MAX_EXPR_LEN - 2

TypeDigit ==
  /\ pc = "idle"
  /\ saves = 0 \/ NearFull
  /\ SetUI(appendValue(UI, <<"9">>))
  /\ UNCHANGED <<evalVars, saves, log, prev>>

ToggleNearFull == NearFull /\ ToggleSign

EqualsNearFull == NearFull /\ EqualsOnce

BackspaceNearFull == NearFull /\ Backspace

NextLong ==
  \/ TypeDigit
  \/ ToggleNearFull
  \/ EqualsNearFull
  \/ BackspaceNearFull
  \/ ClearAll
  \/ SelectHistory(1)

\* a stored history whose expression is longer than MAX_EXPR_LEN
LongHistory == <<EntryOf(Repeat("9", MAX_EXPR_LEN + 1), 1)>>

SpecLong == InitApp({LongHistory}) /\ [][NextLong]_vars

(***************************************************************************)
(* C12: after any sequence of UI operations the expression is at most 240  *)
(* characters long.                                                        *)
(***************************************************************************)
C12_ExpressionAtMost240 == Len(expression) <= 240

\* the sign was toggled on 240 digits: the text with "-" added was cut to
\* 240 characters
C12_Witness ==
  /\ Len(expression) = 240
  /\ expression[1] = "-"
  /\ \A k \in 2..240 : expression[k] = "9"

(***************************************************************************)
(* C13: round trip: the text String(v) of a value v that evaluate returned *)
(* evaluates to v again.                                                   *)
(***************************************************************************)
C13_RoundTrip ==
  (pc = "done" /\ outcome.ok) =>
    evaluate(NumToString(outcome.value)) = Return(outcome.value)

(***************************************************************************)
(* C14: in toRpn a + or - token becomes u+ or u- exactly when it is the    *)
(* first token or the token before it is an operator or "("; after a       *)
(* number or ")" it stays binary; * and / are never made unary.  The       *)
(* operator that an iteration handles is the one it leaves on top of the   *)
(* operator stack.                                                         *)
(***************************************************************************)
C14_Handled == pc = "toRpn" /\ idx <= Len(tokens) /\ tokens[idx].type = "op"

C14_UnaryExactlyAtStartOrAfterOperator ==
  [][ C14_Handled =>
        LET t == tokens[idx]
            signed == t.value = "+" \/ t.value = "-"
            atStart == idx = 1
            afterOpener == idx > 1 /\ tokens[idx - 1].type \in {"op", "("}
            afterOperand == idx > 1 /\ tokens[idx - 1].type \in {"num", ")"}
            pushed == Top(ops').value
        IN /\ pc' = "toRpn" /\ idx' = idx + 1
           /\ Len(ops') > 0 /\ Top(ops').type = "op"
           /\ pushed \in {"u+", "u-"} <=> (signed /\ (atStart \/ afterOpener))
           /\ pushed = "u+" => t.value = "+"
           /\ pushed = "u-" => t.value = "-"
           /\ afterOperand => pushed = t.value
           /\ ~signed => pushed = t.value ]_vars

\* a "-" after an operator has been made unary, and a "*" in the same unary
\* position before it has been kept
C14_Witness ==
  /\ pc = "toRpn" /\ idx = 4
  /\ tokens[1].type = "(" /\ tokens[2].type = "op" /\ tokens[2].value = "*"
  /\ tokens[3].type = "op" /\ tokens[3].value = "-"
  /\ Len(ops) = 3 /\ ops[2].type = "op" /\ ops[2].value = "*"
  /\ Top(ops).value = "u-"

(***************************************************************************)
(* C15: no non-finite value passes through the pipeline.  Every Number     *)
(* token and every value on the operand stack is finite in every state of  *)
(* a call, and a returned value is finite; an input whose leftmost         *)
(* offender is a literal that overflows fails with "Number too large"; a   *)
(* binary operation whose result overflows fails with "Result not finite", *)
(* its operands taken from the operand stack and nothing pushed.           *)
(***************************************************************************)
FiniteNumbers(toks) ==
  \A i \in 1..Len(toks) : toks[i].type = "num" => IsFinite(toks[i].value)

\* the operation a op b of evalRpn, a division by zero left aside
Overflows(op, a, b) ==
  \/ op = "+" /\ ~IsFinite(NumAdd(a, b))
  \/ op = "-" /\ ~IsFinite(NumSub(a, b))
  \/ op = "*" /\ ~IsFinite(NumMul(a, b))
  \/ op = "/" /\ b # Zero /\ ~IsFinite(NumDiv(a, b))

C15_NoNonFiniteValue ==
  /\ [](pc # "idle" =>
          /\ FiniteNumbers(tokens) /\ FiniteNumbers(out) /\ FiniteNumbers(rpn)
          /\ \A i \in 1..Len(st) : IsFinite(st[i])
          /\ (pc = "done" /\ outcome.ok) => IsFinite(outcome.value)
          /\ pc = "done" =>
               LET str == WithoutSpaces(input)
                   off == Offenders(str)
               IN (/\ off # {}
                   /\ IsRunChar(str[Least(off)])
                   /\ WellFormedRun(RunAt(str, Least(off)))
                   /\ ~IsFinite(Number(RunAt(str, Least(off)))))
                    => outcome = Throw("Number too large"))
  /\ [][ ( /\ pc = "evalRpn" /\ pos <= Len(rpn)
           /\ rpn[pos].type = "op" /\ rpn[pos].value \in {"+", "-", "*", "/"}
           /\ Len(st) >= 2
           /\ Overflows(rpn[pos].value, st[Len(st) - 1], st[Len(st)]) )
         => /\ pc' = "done"
            /\ outcome' = Throw("Result not finite")
            /\ st' = Pop(Pop(st)) ]_vars

\* a product of two finite literals that is beyond the largest double was
\* refused: the postfix sequence is at the "*", and the stack holds neither
\* operand nor a product
C15_Witness ==
  /\ pc = "done"
  /\ outcome = Throw("Result not finite")
  /\ pos = 3
  /\ rpn[3].type = "op" /\ rpn[3].value = "*"
  /\ rpn[1].type = "num" /\ rpn[2].type = "num"
  /\ IsFinite(rpn[1].value) /\ IsFinite(rpn[2].value)
  /\ ~IsFinite(NumMul(rpn[1].value, rpn[2].value))
  /\ st = <<>>

(***************************************************************************)
(* The editing operations on short expressions with a non-zero digit: the  *)
(* keys of EditKeys, backspace, toggleSign, and equals and the selection   *)
(* of the history item that it saved.                                      *)
(***************************************************************************)
EditKeys == {<<"9">>, <<"+">>, <<"(">>}

NextEdit ==
  \/ \E v \in EditKeys : AppendValue(v)
  \/ Backspace
  \/ ToggleSign
  \/ EqualsOnce
  \/ SelectHistory(1)

SpecEdit == InitApp({<<>>}) /\ [][NextEdit]_vars

(***************************************************************************)
(* C16: live preview keeps the last good result.  When an edit leads to an *)
(* expression that fails to evaluate, the result display shows the value   *)
(* of the most recent expression that previewed successfully, a blank      *)
(* expression counting as a successful preview of 0: the value of the      *)
(* expression before the edit when that one previews successfully, and     *)
(* otherwise what the display showed before the edit.                      *)
(***************************************************************************)
PreviewsWell(e) == IsBlank(e) \/ evaluate(e).ok

PreviewValue(e) == IF IsBlank(e) THEN Zero ELSE evaluate(e).value

C16_PreviewKeepsLastGood ==
  [][ (expression' # expression /\ ~PreviewsWell(expression')) =>
        IF PreviewsWell(expression)
          THEN result' = ShowNumber(PreviewValue(expression))
          ELSE ~result.isError => result' = result ]_vars

(***************************************************************************)
(* C17: toggleSign changes only the sign of the last number.  When the     *)
(* expression holds a number, a "-" is added or removed directly before    *)
(* the last number and every other character, before and after that       *)
(* number, is kept; a non-empty expression with no number is unchanged.    *)
(***************************************************************************)
HasNumber(e) == \E k \in 1..Len(e) : IsDigit(e[k])

\* the position of the last digit of e
LastDigitAt(e) == CHOOSE k \in 1..Len(e) : IsDigit(e[k]) /\ \A m \in (k + 1)..Len(e) : ~IsDigit(e[m])

\* the start of the run of digits that ends at k
DigitsStart(e, k) == CHOOSE b \in 1..k :
                       /\ \A m \in b..k : IsDigit(e[m])
                       /\ b = 1 \/ ~IsDigit(e[b - 1])

\* the start of the last number: its digits, with an integer part and a "."
\* before them if there are
LastNumberStart(e) ==
  LET b == DigitsStart(e, LastDigitAt(e)) IN
  IF b > 2 /\ e[b - 1] = "." /\ IsDigit(e[b - 2]) THEN DigitsStart(e, b - 2) ELSE b

SignToggled(e) ==
  LET b == LastNumberStart(e) IN
  IF b > 1 /\ e[b - 1] = "-"
    THEN SubSeq(e, 1, b - 2) \o SubSeq(e, b, Len(e))
    ELSE SubSeq(e, 1, b - 1) \o <<"-">> \o SubSeq(e, b, Len(e))

C17_ToggleSignOnlySign ==
  [][ (ToggleSign /\ Len(expression) > 0) =>
        expression' = (IF HasNumber(expression) THEN SignToggled(expression)
                       ELSE expression) ]_vars

(***************************************************************************)
(* Typing: from the empty expression, only appendValue with the values of  *)
(* TypeKeys, backspace and clearAll, called by the buttons or by the keys  *)
(* of TypeKeyNames: Escape for clearAll, Backspace for backspace, keys     *)
(* that appendValue is called with, among them the function key F1, whose  *)
(* name holds a digit, and the space key, which the listener ignores.      *)
(***************************************************************************)
TypeKeys == {<<>>, <<"9">>, <<".">>, <<"+">>, <<"-">>, <<"(">>, <<")">>}

TypeKeyNames == {Escape, BackspaceKey, <<"9">>, <<"*">>, <<")">>, <<"F", "1">>, <<" ">>}

\* a key of TypeKeyNames is pressed
KeyDownType ==
  \E key \in TypeKeyNames, now \in Times, w \in StorageOutcomes : KeyDown(key, now, w)

NextType ==
  \/ \E v \in TypeKeys : AppendValue(v)
  \/ Backspace
  \/ ClearAll
  \/ KeyDownType

SpecType == InitApp({<<>>, Stock(1)}) /\ [][NextType]_vars

(***************************************************************************)
(* C18: after any sequence of appendValue, backspace and clearAll from the *)
(* empty expression, the expression never begins with +, * or /: the only  *)
(* operator that can be its first character is "-".                        *)
(***************************************************************************)
C18_NoLeadingOperator ==
  Len(expression) > 0 => expression[1] \notin {"+", "*", "/"}

(***************************************************************************)
(* C19: after any sequence of appendValue, backspace and clearAll from the *)
(* empty expression, the expression never holds two adjacent operator      *)
(* characters, an operator typed after an operator replacing it, and no    *)
(* stretch of digits and "." between operators and parentheses holds more  *)
(* than one ".".                                                           *)
(***************************************************************************)
C19_NoAdjacentOperatorsOneDot ==
  /\ [](/\ \A k \in 1..(Len(expression) - 1) :
             ~(isOperator(expression[k]) /\ isOperator(expression[k + 1]))
        /\ \A i \in 1..Len(expression) : \A j \in i..Len(expression) :
             (\A k \in i..j : expression[k] \in Digits \cup {"."})
               => Cardinality({k \in i..j : expression[k] = "."}) <= 1)
  /\ [][ \A v \in TypeKeys \cup TypeKeyNames :
           ( /\ AppendValue(v) \/ KeyDown(v, 1, Stored)
             /\ IsOperatorKey(v)
             /\ isOperator(LastChar(expression)) )
             => expression' = DropLast(expression) \o v ]_vars

\* after "9", an operator and a "." that opened the number "0.": a second "."
\* is refused there, and an operator typed after "9-" replaces the "-"
C19_Witness ==
  /\ expression = <<"9", "-", "0", ".">>
  /\ appendValue(UI, <<".">>) = UI
  /\ appendValue([UI EXCEPT !.expression = <<"9", "-">>], <<"+">>).expression = <<"9", "+">>

(***************************************************************************)
(* C20: whenever toRpn succeeds its output holds no parenthesis token,     *)
(* holds the Number tokens of the input in their input order, and holds    *)
(* each operator token of the input exactly once, a unary + or - as u+ or  *)
(* u-; so its length is the number of input tokens that are no             *)
(* parenthesis.  toRpn does not modify its input sequence.                 *)
(***************************************************************************)
IsNumToken(t) == t.type = "num"

\* the kind under which the operator token at i of toks is to be emitted
EmittedKind(toks, i) ==
  IF (i = 1 \/ toks[i - 1].type \in {"op", "("}) /\ toks[i].value \in {"+", "-"}
    THEN (IF toks[i].value = "+" THEN "u+" ELSE "u-")
    ELSE toks[i].value

C20_PostfixKeepsTokens ==
  /\ [](pc = "evalRpn" =>
          /\ \A i \in 1..Len(rpn) : rpn[i].type \in {"num", "op"}
          /\ SelectSeq(rpn, IsNumToken) = SelectSeq(tokens, IsNumToken)
          /\ \A w \in {"+", "-", "*", "/", "u+", "u-"} :
               Cardinality({i \in 1..Len(rpn) : rpn[i].type = "op" /\ rpn[i].value = w})
                 = Cardinality({i \in 1..Len(tokens) :
                                  tokens[i].type = "op" /\ EmittedKind(tokens, i) = w})
          /\ Len(rpn) = Cardinality({i \in 1..Len(tokens) : tokens[i].type \in {"num", "op"}}))
  /\ [][pc = "toRpn" => tokens' = tokens]_vars

\* a parenthesised sum: both parentheses are gone and the operator comes
\* after its two numbers
C20_Witness ==
  /\ pc = "evalRpn"
  /\ Len(tokens) = 5
  /\ tokens[1].type = "(" /\ tokens[5].type = ")"
  /\ tokens[2].type = "num" /\ tokens[3].type = "op" /\ tokens[4].type = "num"
  /\ tokens[2] # tokens[4]
  /\ Len(rpn) = 3
  /\ rpn[1] = tokens[2] /\ rpn[2] = tokens[4] /\ rpn[3].type = "op"

====
